---- MODULE Spec2Model ----
(***************************************************************************)
(* State-machine model of                                                  *)
(*  - brainpy/_src/dyn/context.py: the Delay variable (a delay buffer      *)
(*    attached to a target Variable) and the shared context `share` (its   *)
(*    arguments, its registry of Delays, load/save/update/clear);          *)
(*  - brainpy/math/numpy/ast2numba.py: the call-site rewriter              *)
(*    (FuncTransformer, _replace_func) and the analyzer of the attribute   *)
(*    chains of a method (_analyze_cls_func, analyze_cls_func,             *)
(*    analyze_intg_func, analyze_func);                                    *)
(*  - brainpy/math/object_transform/jit.py: the calls of FunctionJIT and   *)
(*    ObjectJIT around the function handed to jit().                       *)
(*                                                                         *)
(* Abstractions, stated once:                                              *)
(*  - a row of the buffer (one time slice of the target) is one opaque     *)
(*    value; the target's leading dimension TargetDim is kept because the  *)
(*    registration checks read it;                                         *)
(*  - dynamically typed Python arguments are tagged records (Py...);       *)
(*  - an exception is a record [exc, args]; a call that raises leaves the  *)
(*    state as the code left it when the exception was thrown;             *)
(*  - the simulated quantity is chosen so that its value at step i is     *)
(*    i + 1: a row of the buffer then tells at which step it was written;  *)
(*  - run, phase and called are history variables (they record what was    *)
(*    pushed or called); no operation of the program reads them;           *)
(*  - a syntax tree is a record per node with the fields ast.parse gives   *)
(*    it; source text is a string, an attribute chain its dotted parts;    *)
(*  - the objects and callables the analyzer walks are a fixed graph       *)
(*    (Objects, Functions).                                                *)
(*                                                                         *)
(* Six specifications share the variables: Spec (the buffer at work),      *)
(* SpecRegister (registration), SpecLife (a Delay from construction on),   *)
(* SpecShare (the shared context), SpecJit (rewriter and analyzer) and     *)
(* SpecTransform (FunctionJIT and ObjectJIT); each leaves the others'      *)
(* variables alone.                                                        *)
(***************************************************************************)
EXTENDS Integers, Sequences, FiniteSets, TLC

\* ---------------------------------------------------------------- bounds
\* the largest initial length, and the largest lag retrieve is asked for
MaxLen == 3
\* the largest lag registered, and the largest initial length, while entries are registered
MaxLag == 2
\* largest value of the shared step counter i
MaxStep == 5
\* largest value of i while entries are being registered
MaxRegisterStep == 0
\* target.shape[0], also the target's batch size (batch_axis = 0)
TargetDim == 2

EntryNames == {"a", "b"}
RunCap == MaxLen + 2

\* ------------------------------------------------- Python values and errors
PyNone == [type |-> "NoneType"]
PyInt(n) == [type |-> "int", value |-> n]
\* a float, in tenths (PyFloat(3) is 0.3)
PyFloat(tenths) == [type |-> "float", value |-> tenths]
\* a one-dimensional array
PyArray(dtype, elems) == [type |-> "Array", dtype |-> dtype, value |-> elems]

NoError == [exc |-> "None", args |-> <<>>]
Raise(exc, args) == [exc |-> exc, args |-> args]

\* self.data = None
NoData == <<>>

VARIABLES
  method,          \* self.method: "rotate" | "concat"
  length,          \* self.length
  data,            \* self.data: NoData or the rows 0..length (at 1..length+1)
  before_t0,       \* self._before_t0: PyNone or PyInt(v)
  target,          \* self.target.value
  access_to_step,  \* self._access_to_step: entry name -> lag specifier
  arguments,       \* share._arguments: key -> value
  checking,        \* check.is_checking()
  last,            \* the last call: [op, exc], exc = "None" when it raised nothing
  pushes,          \* history: how many update() calls returned since the buffer was allocated
                   \*          or, with no buffer, since construction: 0, 1, or 2 for two or more
  run,             \* history: how many of them, the latest included, came one per step at
                   \*          successive step indices (capped at RunCap)
  phase,           \* history: "updated" (no step since the last push) | "advanced" | "broken"
  delays,          \* share._delays: the registrations [name, delay], in insertion order
  objs,            \* the Delay objects handed to share.save: id -> [method, length, data]
  called,          \* history: the Delays whose update() the last call on share called, in call order
  ret,             \* the value the last call returned, PyNone when it returned none
  tree,            \* the syntax tree (ast.Module) of the function under analysis
  passes,          \* how many times _replace_func has rewritten tree
  dyn_vars,        \* the values of the Variables an ObjectJIT tracks (self._vars): key -> value
  context          \* the names of the transformations entered and not left, oldest first

vars == <<method, length, data, before_t0, target, access_to_step, arguments,
          checking, last, pushes, run, phase, delays, objs, called, ret, tree, passes,
          dyn_vars, context>>

\* the state of the JAX transformations: only their own calls touch it
transform_vars == <<dyn_vars, context>>

\* the delay registry of share, and the state of the code analyzer: no operation
\* of the Delay touches them
rest_vars == <<delays, objs, called, ret, tree, passes, transform_vars>>

delay_vars == <<method, length, data, before_t0, access_to_step>>

Outcome(op, err) == [op |-> op, exc |-> err.exc]

\* ------------------------------------------------------------ share.load
\* _ShareContext.load(key) for a key other than 'dt', no Delay registered
share_has(key) == key \in DOMAIN arguments

share_load_error(key) == Raise("KeyError", <<"Cannot found shared data of", key>>)

\* ------------------------------------------------------------ _init_data
\* rows [1:] of a fresh buffer: before_t0, or the zeros of jnp.zeros
SeedRow == IF before_t0.type = "NoneType" THEN 0 ELSE before_t0.value

\* (a bug to detect: the rows after row 0 are seeded with the target's value)
init_data_all_target(len) == [j \in 1..(len + 1) |-> target]

\* the buffer _init_data(len) allocates: row 0 = target.value, rows 1..len = seed
init_data(len) == <<target>> \o [j \in 1..len |-> SeedRow]

\* (a bug to detect: the batch size is not compared)
batch_mismatch_never(batch_size) == FALSE

\* the batch-size check of _init_data
batch_mismatch(batch_size) ==
  /\ batch_size.type # "NoneType"
  /\ TargetDim # batch_size.value

\* -------------------------------------------------------- register_entry
\* (a bug to detect: the duplicate-name test is missing)
Registered_never(entry) == FALSE

\* the duplicate-name test
Registered(entry) == entry \in DOMAIN access_to_step

\* (a bug to detect: giving both is not rejected, delay_time wins)
BothGiven_never(delay_time, delay_step) == FALSE

\* both delay_time and delay_step given
BothGiven(delay_time, delay_step) ==
  delay_time.type # "NoneType" /\ delay_step.type # "NoneType"

\* bm.get_dt(): the process-wide default time step, in tenths (0.1)
get_dt == 1

\* int(t / 0.1) in IEEE double arithmetic for t = 0.1, 0.2, ..., 0.7:
\* 0.3 / 0.1 = 2.9999999999999996, 0.6 / 0.1 = 5.999999999999999, 0.7 / 0.1 = 6.999999999999999
FloatDivDt == <<1, 2, 2, 4, 5, 5, 6>>

\* delay_step = int(delay_time / bm.get_dt()) for a float delay_time
StepFromTime(delay_time) ==
  PyInt(IF delay_time.value = 0 THEN 0 ELSE FloatDivDt[delay_time.value \div get_dt])

\* the delay_step the rest of register_entry works on
step_of(delay_time, delay_step) ==
  IF delay_time.type = "NoneType" THEN delay_step ELSE StepFromTime(delay_time)

\* the classification of delay_step; a one-dimensional array has ndim = 1, so it is 'heter'
delay_type(delay_step) ==
  CASE delay_step.type = "NoneType" -> "none"
    [] delay_step.type = "int" -> "homo"
    [] delay_step.type = "Array" -> "heter"
    [] OTHER -> "unknown"

\* (a bug to detect: the leading dimension is not compared)
heter_error_no_shape(delay_step) ==
  IF delay_step.dtype \notin {"int32", "int64"}
    THEN Raise("ValueError: Only support delay steps of int32, int64", <<>>)
  ELSE NoError

\* the checks on a heterogeneous step array: dtype first, then the leading dimension
heter_error(delay_step) ==
  IF delay_step.dtype \notin {"int32", "int64"}
    THEN Raise("ValueError: Only support delay steps of int32, int64", <<>>)
  ELSE IF TargetDim # Len(delay_step.value)
    THEN Raise("ValueError: Shape is mismatched", <<TargetDim, Len(delay_step.value)>>)
  ELSE NoError

SeqMax(s) == CHOOSE m \in {s[j] : j \in DOMAIN s} : \A j \in DOMAIN s : s[j] <= m

\* max_delay_step of a 'homo' or 'heter' delay_step
max_delay_step(delay_step) ==
  IF delay_type(delay_step) = "heter" THEN SeqMax(delay_step.value) ELSE delay_step.value

\* (a bug to detect: the buffer is resized to every registered lag)
grow_needed_any(max_step) == length # max_step

grow_needed_never(max_step) == FALSE

\* the test guarding the reallocation
grow_needed(max_step) == length < max_step

\* the exception register_entry raises, NoError when it raises none
register_error(entry, delay_time, delay_step) ==
  LET ds == step_of(delay_time, delay_step) IN
  IF Registered(entry) THEN Raise("KeyError: Entry has been registered", <<>>)
  ELSE IF BothGiven(delay_time, delay_step)
    THEN Raise("ValueError: Provide either delay_time or delay_step", <<>>)
  ELSE IF delay_type(ds) = "unknown" THEN Raise("ValueError: Unknown delay_steps type", <<>>)
  ELSE IF delay_type(ds) = "heter" THEN heter_error(ds)
  ELSE NoError

register_entry(entry, delay_time, delay_step) ==
  LET ds == step_of(delay_time, delay_step)
      err == register_error(entry, delay_time, delay_step)
      ok == err.exc = "None"
      grow == ok /\ delay_type(ds) # "none" /\ grow_needed(max_delay_step(ds))
  IN /\ last' = Outcome("register_entry", err)
     /\ IF grow
          THEN /\ data' = init_data(max_delay_step(ds))
               /\ length' = max_delay_step(ds)
               /\ pushes' = 0
               /\ run' = 0
               /\ phase' = "broken"
          ELSE UNCHANGED <<data, length, pushes, run, phase>>
     /\ IF ok
          THEN access_to_step' =
                 [n \in DOMAIN access_to_step \cup {entry} |->
                    IF n = entry THEN ds ELSE access_to_step[n]]
          ELSE UNCHANGED access_to_step
     /\ UNCHANGED <<method, before_t0, target, arguments, checking, rest_vars>>

\* the arguments the environment calls register_entry with
HeterSteps(n) == [j \in 1..n |-> IF j = 1 THEN 1 ELSE 2]
GoodArray == PyArray("int32", HeterSteps(TargetDim))
BadShapeArray == PyArray("int32", HeterSteps(TargetDim + 1))
BadDtypeArray == PyArray("float32", HeterSteps(TargetDim))
HeterArrays == {GoodArray, BadShapeArray, BadDtypeArray}
DelaySteps == {PyNone} \cup {PyInt(n) : n \in 0..MaxLag} \cup HeterArrays \cup {PyFloat(1)}
DelayTimes == {PyNone, PyFloat(1), PyFloat(3)}
\* (delay_time, delay_step) as given: a step alone, a time alone, or both
RegisterArgs ==
  {<<PyNone, s>> : s \in DelaySteps} \cup {<<t, s>> : t \in DelayTimes \ {PyNone}, s \in {PyNone, PyInt(1)}}

\* --------------------------------------------------------------- retrieve
\* the lags of a delay_step, one per addressed element
Steps(delay_step) == IF delay_step.type = "int" THEN <<delay_step.value>> ELSE delay_step.value

\* (a bug to detect: a lag equal to the length is refused)
delay_exceeds_or_equals(delay_step) ==
  \E j \in DOMAIN Steps(delay_step) : Steps(delay_step)[j] >= length

\* jnp.any(delay_step > self.length)
delay_exceeds(delay_step) == \E j \in DOMAIN Steps(delay_step) : Steps(delay_step)[j] > length

\* jit_error_checking(pred, err_fun, *args): err_fun(*args) is called when pred holds
jit_error_checking(pred, err, args) == IF pred THEN Raise(err, args) ELSE NoError

\* _check_delay(delay_len): the message carries self.length and delay_len
check_delay(delay_step) ==
  IF checking
    THEN jit_error_checking(delay_exceeds(delay_step),
                            "ValueError: The request delay length should be less than the maximum delay",
                            <<length>> \o Steps(delay_step))
    ELSE NoError

\* the buffer row of lag `step`: (i + delay_step) % (length + 1), or delay_step itself
delay_idx(step) ==
  IF method = "rotate" THEN (arguments["i"] + step) % (length + 1) ELSE step

\* delay_idx is an array of a non-integer dtype
idx_not_integer(delay_step) ==
  delay_step.type = "Array" /\ delay_step.dtype \notin {"int32", "int64"}

\* self.data[delay_idx] with every index inside the buffer
rows_at(delay_step) == [j \in DOMAIN Steps(delay_step) |-> data[delay_idx(Steps(delay_step)[j]) + 1]]

\* the same read with out-of-range indices clamped to the last row
rows_clamped(delay_step) ==
  [j \in DOMAIN Steps(delay_step) |->
     LET r == delay_idx(Steps(delay_step)[j]) IN data[(IF r > length THEN length ELSE r) + 1]]

in_range(delay_step) ==
  \A j \in DOMAIN Steps(delay_step) : delay_idx(Steps(delay_step)[j]) <= length

\* the outcomes of retrieve(delay_step): [err, ret]. An index past the last row is
\* an IndexError or a clamped read, depending on how the array library indexes.
retrieve_outcomes(delay_step) ==
  IF check_delay(delay_step).exc # "None"
    THEN {[err |-> check_delay(delay_step), ret |-> <<>>]}
  ELSE IF method = "rotate" /\ ~share_has("i")
    THEN {[err |-> share_load_error("i"), ret |-> <<>>]}
  ELSE IF idx_not_integer(delay_step)
    THEN {[err |-> Raise("ValueError: delay_len must be integer", <<>>), ret |-> <<>>]}
  ELSE IF data = NoData
    THEN {[err |-> Raise("TypeError: NoneType object is not subscriptable", <<>>), ret |-> <<>>]}
  ELSE IF in_range(delay_step)
    THEN {[err |-> NoError, ret |-> rows_at(delay_step)]}
  ELSE {[err |-> Raise("IndexError: index out of bounds", <<>>), ret |-> <<>>],
        [err |-> NoError, ret |-> rows_clamped(delay_step)]}

retrieve(delay_step) ==
  /\ \E o \in retrieve_outcomes(delay_step) : last' = Outcome("retrieve", o.err)
  /\ UNCHANGED <<delay_vars, target, arguments, checking, rest_vars, pushes, run, phase>>

\* --------------------------------------------------------------------- at
\* the outcomes of at(entry), no further indices given
at_outcomes(entry) ==
  IF ~Registered(entry)
    THEN {[err |-> Raise("KeyError: Does not find delay entry", <<>>), ret |-> <<>>]}
  ELSE IF access_to_step[entry].type = "NoneType" \/ data = NoData
    THEN {[err |-> NoError, ret |-> <<target>>]}
  ELSE retrieve_outcomes(access_to_step[entry])

at(entry) ==
  /\ \E o \in at_outcomes(entry) : last' = Outcome("at", o.err)
  /\ UNCHANGED <<delay_vars, target, arguments, checking, rest_vars, pushes, run, phase>>

\* ----------------------------------------------------------------- update
\* the value update() writes: latest_value, or target.value when it is None
pushed(latest_value) ==
  IF latest_value.type = "NoneType" THEN target ELSE latest_value.value

\* the rotation index: (i - 1) % (length + 1)
update_idx == (arguments["i"] - 1) % (length + 1)

\* the buffer after update() has written v
update_data(v) ==
  IF method = "rotate" THEN [data EXCEPT ![update_idx + 1] = v]
  ELSE IF length >= 2 THEN <<v>> \o SubSeq(data, 2, Len(data))
  ELSE [data EXCEPT ![1] = v]

\* history: one more update() call has returned
Counted ==
  /\ pushes' = IF pushes < 2 THEN pushes + 1 ELSE pushes
  /\ run' = IF phase = "advanced" /\ run < RunCap THEN run + 1
            ELSE IF phase = "advanced" THEN run ELSE 1
  /\ phase' = "updated"

update(latest_value) ==
  IF data = NoData
    THEN /\ last' = Outcome("update", NoError)
         /\ Counted
         /\ UNCHANGED <<delay_vars, target, arguments, checking, rest_vars>>
  ELSE IF method = "rotate" /\ ~share_has("i")
    THEN /\ last' = Outcome("update", share_load_error("i"))
         /\ UNCHANGED <<delay_vars, target, arguments, checking, rest_vars, pushes, run, phase>>
  ELSE /\ data' = update_data(pushed(latest_value))
       /\ last' = Outcome("update", NoError)
       /\ Counted
       /\ UNCHANGED <<method, length, before_t0, access_to_step, target, arguments, checking, rest_vars>>

\* ------------------------------------------------------------ reset_state
reset_state(batch_size) ==
  IF data = NoData
    THEN /\ last' = Outcome("reset_state", NoError)
         /\ UNCHANGED <<delay_vars, target, arguments, checking, rest_vars, pushes, run, phase>>
  ELSE IF batch_mismatch(batch_size)
    THEN /\ last' = Outcome("reset_state",
                            Raise("ValueError: The batch sizes of delay variable and target variable differ",
                                  <<TargetDim, batch_size.value>>))
         /\ UNCHANGED <<delay_vars, target, arguments, checking, rest_vars, pushes, run, phase>>
  ELSE /\ data' = init_data(length)
       /\ last' = Outcome("reset_state", NoError)
       /\ pushes' = 0
       /\ run' = 0
       /\ phase' = "broken"
       /\ UNCHANGED <<method, length, before_t0, access_to_step, target, arguments, checking, rest_vars>>

BatchSizes == {PyNone, PyInt(TargetDim), PyInt(TargetDim + 1)}

\* ------------------------------------------------------------- share.save
\* the simulated quantity at step i
TargetAt(i) == i + 1

\* the step the runner moves to: i = 0 first, then one more each time
NextStep == IF share_has("i") THEN arguments["i"] + 1 ELSE 0

\* One simulation step of the runner: share.save(i=n), a keyword argument that is
\* no Delay and so goes to _arguments, and the owner of the target Variable
\* assigning the step's value to target.value
advance(n) ==
  /\ arguments' = [k \in DOMAIN arguments \cup {"i"} |-> IF k = "i" THEN n ELSE arguments[k]]
  /\ target' = TargetAt(n)
  /\ last' = Outcome("save", NoError)
  /\ phase' = IF phase = "updated" THEN "advanced" ELSE "broken"
  /\ UNCHANGED <<delay_vars, checking, rest_vars, pushes, run>>

\* ------------------------------------------------------------ construction
EmptyMap == [k \in {} |-> PyNone]

\* a dict handed over as an argument
PyDict(items) == [type |-> "dict", value |-> items]

\* Delay(target, len, b0, entries, method=how) on the target Variable, len an
\* integer >= 0: a call that returns puts the new Delay under observation, a call
\* that raises leaves no new Delay. entries is None, the default, or the empty dict
\* (an entry in it is registered by register_entry as it is after construction)
Delay_init(len, b0, entries, how) ==
  IF entries.type = "NoneType"
    THEN /\ last' = Outcome("__init__",
                            Raise("AttributeError: 'NoneType' object has no attribute 'items'", <<>>))
         /\ UNCHANGED <<delay_vars, target, arguments, checking, rest_vars, pushes, run, phase>>
  ELSE /\ method' = how
       /\ length' = len
       /\ before_t0' = b0
       /\ target' = target
       /\ data' = IF len > 0 THEN init_data(len)' ELSE NoData
       /\ access_to_step' = EmptyMap
       /\ last' = Outcome("__init__", NoError)
       /\ pushes' = 0
       /\ run' = 0
       /\ phase' = "broken"
       /\ UNCHANGED <<arguments, checking, rest_vars>>

\* ======================================================================
\* The shared context: _ShareContext (share)
\* ======================================================================
\* a Delay object, as a value handed to share.save or returned by share.load
PyDelay(d) == [type |-> "Delay", id |-> d]

DelayIds == {1, 2}

\* The Delay objects saved into the context, both on the target Variable and as
\* Delay.__init__ leaves them with before_t0 = -1: a rotate Delay of length 1
\* and a concat Delay of length 2
InitObjs ==
  [d \in DelayIds |->
     IF d = 1 THEN [method |-> "rotate", length |-> 1, data |-> <<0, -1>>]
     ELSE [method |-> "concat", length |-> 2, data |-> <<0, -1, -1>>]]

\* the keys of self._delays
delay_names == {delays[k].name : k \in DOMAIN delays}

\* self._delays[key]
delay_named(key) == delays[CHOOSE k \in DOMAIN delays : delays[k].name = key].delay

\* the dt property: the saved 'dt', or else the global default time step
share_dt == IF "dt" \in DOMAIN arguments THEN arguments["dt"] ELSE get_dt

\* (a bug to detect: the delays are looked up before the arguments)
load_outcome_delays_first(key, value) ==
  IF key = "dt" THEN [err |-> NoError, ret |-> PyInt(share_dt)]
  ELSE IF key \in delay_names THEN [err |-> NoError, ret |-> PyDelay(delay_named(key))]
  ELSE IF key \in DOMAIN arguments THEN [err |-> NoError, ret |-> PyInt(arguments[key])]
  ELSE IF value.type = "NoneType" THEN [err |-> share_load_error(key), ret |-> PyNone]
  ELSE [err |-> NoError, ret |-> value]

\* load(key, value): [err, ret]; value = PyNone is the default of the parameter
load_outcome(key, value) ==
  IF key = "dt" THEN [err |-> NoError, ret |-> PyInt(share_dt)]
  ELSE IF key \in DOMAIN arguments THEN [err |-> NoError, ret |-> PyInt(arguments[key])]
  ELSE IF key \in delay_names THEN [err |-> NoError, ret |-> PyDelay(delay_named(key))]
  ELSE IF value.type = "NoneType" THEN [err |-> share_load_error(key), ret |-> PyNone]
  ELSE [err |-> NoError, ret |-> value]

share_load(key, value) ==
  /\ last' = Outcome("load", load_outcome(key, value).err)
  /\ ret' = load_outcome(key, value).ret
  /\ called' = <<>>
  /\ UNCHANGED <<delay_vars, target, arguments, checking, pushes, run, phase, delays, objs, tree, passes, transform_vars>>

\* One turn of either loop of save on the maps st = [arguments, delays, err]:
\* a Delay goes to _delays unless the name is taken, anything else to _arguments
save_item(st, identifier, item) ==
  IF item.type = "Delay"
    THEN IF \E k \in DOMAIN st.delays : st.delays[k].name = identifier
           THEN [st EXCEPT !.err = Raise("ValueError: has been used. Please assign another name.",
                                         <<identifier>>)]
           ELSE [st EXCEPT !.delays = Append(st.delays, [name |-> identifier, delay |-> item.id])]
    ELSE [st EXCEPT !.arguments =
            [k \in DOMAIN st.arguments \cup {identifier} |->
               IF k = identifier THEN item.value ELSE st.arguments[k]]]

\* The loop over the positional arguments, `for i in range(0, len(args), 2)`, from i
\* on: it reads args[i * 2] and args[i * 2 + 1] (positions i * 2 + 1 and i * 2 + 2
\* of the sequence)
RECURSIVE save_args(_, _, _)
save_args(st, args, i) ==
  IF i >= Len(args) \/ st.err.exc # "None" THEN st
  ELSE IF i * 2 + 2 > Len(args)
    THEN [st EXCEPT !.err = Raise("IndexError: tuple index out of range", <<>>)]
  ELSE save_args(save_item(st, args[i * 2 + 1], args[i * 2 + 2]), args, i + 2)

\* the loop over kwargs.items(), from the k-th item on
RECURSIVE save_kwargs(_, _, _)
save_kwargs(st, kwargs, k) ==
  IF k > Len(kwargs) \/ st.err.exc # "None" THEN st
  ELSE save_kwargs(save_item(st, kwargs[k][1], kwargs[k][2]), kwargs, k + 1)

\* the maps and the exception save(*args, **kwargs) ends with
saved(args, kwargs) ==
  LET st0 == [arguments |-> arguments, delays |-> delays, err |-> NoError] IN
  IF Len(args) % 2 # 0 THEN [st0 EXCEPT !.err = Raise("AssertionError", <<>>)]
  ELSE save_kwargs(save_args(st0, args, 0), kwargs, 1)

share_save(args, kwargs) ==
  /\ arguments' = saved(args, kwargs).arguments
  /\ delays' = saved(args, kwargs).delays
  /\ last' = Outcome("save", saved(args, kwargs).err)
  /\ ret' = PyNone
  /\ called' = <<>>
  /\ UNCHANGED <<delay_vars, target, checking, pushes, run, phase, objs, tree, passes, transform_vars>>

\* Delay.update() with latest_value = None on a Delay object o of the context: [err, obj]
delay_update(o) ==
  IF o.data = NoData THEN [err |-> NoError, obj |-> o]
  ELSE IF o.method = "rotate"
    THEN IF load_outcome("i", PyNone).err.exc # "None"
           THEN [err |-> load_outcome("i", PyNone).err, obj |-> o]
         ELSE IF load_outcome("i", PyNone).ret.type # "int"
           THEN [err |-> Raise("TypeError: unsupported operand type(s) for -", <<>>), obj |-> o]
         ELSE [err |-> NoError,
               obj |-> [o EXCEPT !.data[((load_outcome("i", PyNone).ret.value - 1) % (o.length + 1)) + 1] = target]]
  ELSE IF o.length >= 2
    THEN [err |-> NoError, obj |-> [o EXCEPT !.data = <<target>> \o SubSeq(o.data, 2, Len(o.data))]]
  ELSE [err |-> NoError, obj |-> [o EXCEPT !.data[1] = target]]

\* (a bug to detect: the delays are visited latest registration first)
delay_values_reversed == [k \in DOMAIN delays |-> delays[Len(delays) + 1 - k].delay]

\* self._delays.values(): the registered Delays in insertion order
delay_values == [k \in DOMAIN delays |-> delays[k].delay]

\* the loop of share.update() from the k-th Delay on; st = [err, objs, called]
RECURSIVE update_from(_, _)
update_from(k, st) ==
  IF k > Len(delay_values) \/ st.err.exc # "None" THEN st
  ELSE LET r == delay_update(st.objs[delay_values[k]]) IN
       update_from(k + 1, [err |-> r.err,
                           objs |-> [st.objs EXCEPT ![delay_values[k]] = r.obj],
                           called |-> Append(st.called, delay_values[k])])

share_updated == update_from(1, [err |-> NoError, objs |-> objs, called |-> <<>>])

share_update ==
  /\ objs' = share_updated.objs
  /\ called' = share_updated.called
  /\ last' = Outcome("share.update", share_updated.err)
  /\ ret' = PyNone
  /\ UNCHANGED <<delay_vars, target, arguments, checking, pushes, run, phase, delays, tree, passes, transform_vars>>

\* (a bug to detect: clear() forgets the arguments only)
share_clear_arguments_only ==
  /\ arguments' = EmptyMap
  /\ last' = Outcome("clear", NoError)
  /\ ret' = PyNone
  /\ called' = <<>>
  /\ UNCHANGED <<delay_vars, target, checking, pushes, run, phase, delays, objs, tree, passes, transform_vars>>

share_clear ==
  /\ arguments' = EmptyMap
  /\ delays' = <<>>
  /\ last' = Outcome("clear", NoError)
  /\ ret' = PyNone
  /\ called' = <<>>
  /\ UNCHANGED <<delay_vars, target, checking, pushes, run, phase, objs, tree, passes, transform_vars>>

\* ---- what the environment calls share with
\* the largest number of name/value pairs passed positionally to save
MaxPairs == 2

IntPairs == {<<n, v>> : n \in {"i", "dt", "a"}, v \in {PyInt(1), PyInt(2)}}
DelayPairs == {<<n, PyDelay(d)>> : n \in {"a", "b"}, d \in DelayIds}
Pairs == IntPairs \cup DelayPairs
\* the pairs that follow the first one
LaterPairs == {<<"a", PyInt(2)>>, <<"b", PyDelay(2)>>}

RECURSIVE PairLists(_)
PairLists(k) ==
  IF k = 1 THEN {<<p>> : p \in Pairs}
  ELSE {Append(l, p) : l \in PairLists(k - 1), p \in LaterPairs}

\* n1, v1, ..., nk, vk
Flat(l) == [j \in 1..(2 * Len(l)) |-> l[(j + 1) \div 2][IF j % 2 = 1 THEN 1 ELSE 2]]

PositionalArgs ==
  {<<>>, <<"a">>} \cup UNION {{Flat(l) : l \in PairLists(k)} : k \in 1..MaxPairs}
KeywordArgs == {<<>>} \cup {<<p>> : p \in Pairs}

\* (args, kwargs) of a call of save
SaveCalls ==
  {<<a, <<>>>> : a \in PositionalArgs} \cup {<<<<>>, k>> : k \in KeywordArgs}
    \cup {<<<<"a", PyInt(1)>>, <<<<"b", PyDelay(1)>>>>>>}

LoadKeys == {"dt", "i", "a", "b", "z"}
LoadDefaults == {PyNone, PyInt(7)}

\* ======================================================================
\* Transformations on the JAX backend: FunctionJIT, ObjectJIT
\* ======================================================================
\* the keys of self._vars, and the largest value a tracked Variable takes
VarKeys == {"v0", "v1"}
MaxValue == 2
Values == 0..MaxValue
InitVars == [key \in VarKeys |-> 0]

\* the most entries the transformation context holds
MaxContext == 2

\* add_context(name): the transformation is entered
add_context(ctx, name) == Append(ctx, name)

\* del_context(name): the entry added last under the name is taken away
RECURSIVE del_context(_, _)
del_context(ctx, name) ==
  IF ctx = <<>> THEN ctx
  ELSE IF ctx[Len(ctx)] = name THEN SubSeq(ctx, 1, Len(ctx) - 1)
  ELSE Append(del_context(SubSeq(ctx, 1, Len(ctx) - 1), name), ctx[Len(ctx)])

\* self.name of the two transformations
FunctionJITName == "FunctionJIT0"
ObjectJITName == "ObjectJIT0"

\* What the function handed to jit() may end with: the two jax errors, another
\* Exception, and a BaseException that is no Exception
FuncExceptions ==
  {"UnexpectedTracerError", "ConcretizationTypeError", "ValueError", "KeyboardInterrupt"}

\* what the function returns when it returns
Outs == {7}

\* One execution of the function: the exception it ends with ("None" when it
\* returns), the values the tracked Variables are left with, and the value returned
Runs == [exc : FuncExceptions \cup {"None"}, left : [VarKeys -> Values], out : Outs]

\* jitted_func(variable_data, ...): the Variables take variable_data, the function
\* runs, and the values the Variables hold then are the changes returned with out
jitted_func(variable_data, r) ==
  [exc |-> r.exc, out |-> PyInt(r.out), changes |-> r.left, held |-> r.left]

\* the `except` clauses of __call__ catch e: the two jax errors and `Exception`
handled(e) == e \in {"UnexpectedTracerError", "ConcretizationTypeError", "ValueError"}

\* the exception a clause raises for the exception e it caught
reraised(e) ==
  IF e = "UnexpectedTracerError" THEN Raise("brainpy.errors.JaxTracerError", <<>>)
  ELSE IF e = "ConcretizationTypeError" THEN Raise("brainpy.errors.ConcretizationTypeError", <<>>)
  ELSE Raise(e, <<>>)

\* (a bug to detect: a clause leaves the Variables as the function left them)
restored_nothing(variable_data, held) == held

\* `for key, v in self._vars.items(): v._value = variable_data[key]`
restored(variable_data, held) == variable_data

\* FunctionJIT.__call__ around a function that ends with e ("None": it returns out).
\* Nothing is caught: a function that raises leaves its entry in the context.
FunctionJIT_call(e, out) ==
  /\ context' = IF e = "None"
                  THEN del_context(add_context(context, FunctionJITName), FunctionJITName)
                ELSE add_context(context, FunctionJITName)
  /\ Len(context') <= MaxContext
  /\ last' = Outcome("FunctionJIT.__call__", Raise(e, <<>>))
  /\ ret' = IF e = "None" THEN PyInt(out) ELSE PyNone
  /\ UNCHANGED <<delay_vars, target, arguments, checking, pushes, run, phase, delays, objs,
                 called, tree, passes, dyn_vars>>

\* what ObjectJIT.__call__ leaves after the call f of jitted_func on variable_data:
\* [vars, context, err, out]
ObjectJIT_called(variable_data, f) ==
  IF f.exc = "None"
    THEN [vars |-> f.changes,
          context |-> del_context(add_context(context, ObjectJITName), ObjectJITName),
          err |-> NoError, out |-> f.out]
  ELSE IF handled(f.exc)
    THEN [vars |-> restored(variable_data, f.held),
          context |-> del_context(add_context(context, ObjectJITName), ObjectJITName),
          err |-> reraised(f.exc), out |-> PyNone]
  ELSE [vars |-> f.held,
        context |-> add_context(context, ObjectJITName),
        err |-> Raise(f.exc, <<>>), out |-> PyNone]

\* ObjectJIT.__call__ when the function runs as r
ObjectJIT_call(r) ==
  /\ dyn_vars' = ObjectJIT_called(dyn_vars, jitted_func(dyn_vars, r)).vars
  /\ context' = ObjectJIT_called(dyn_vars, jitted_func(dyn_vars, r)).context
  /\ Len(context') <= MaxContext
  /\ last' = Outcome("ObjectJIT.__call__", ObjectJIT_called(dyn_vars, jitted_func(dyn_vars, r)).err)
  /\ ret' = ObjectJIT_called(dyn_vars, jitted_func(dyn_vars, r)).out
  /\ UNCHANGED <<delay_vars, target, arguments, checking, pushes, run, phase, delays, objs,
                 called, tree, passes>>

\* ======================================================================
\* Syntax trees, as ast.parse builds them
\* ======================================================================
Name(id) == [node |-> "Name", id |-> id]
Attribute(value, attr) == [node |-> "Attribute", value |-> value, attr |-> attr]
\* *value in the args of a call
Starred(value) == [node |-> "Starred", value |-> value]
\* arg=value in the keywords of a call; **value has arg = None, written "None"
keyword(arg, value) == [node |-> "keyword", arg |-> arg, value |-> value]
Call(func, args, keywords) ==
  [node |-> "Call", func |-> func, args |-> args, keywords |-> keywords]
Expr(value) == [node |-> "Expr", value |-> value]
\* def name(args): body, args the parameter names; decorator_list the decorators and
\* defaults the default values of the last parameters, both as source text
FunctionDef(name, args, body) ==
  [node |-> "FunctionDef", name |-> name, args |-> args, body |-> body,
   decorator_list |-> <<>>, defaults |-> <<>>]
Module(body) == [node |-> "Module", body |-> body]

\* an exception that leaves a traversal, carried in place of the node
ErrorNode(exc) == [node |-> "Error", exc |-> exc]
HasError(nodes) == \E k \in DOMAIN nodes : nodes[k].node = "Error"
FirstError(nodes) ==
  nodes[CHOOSE k \in DOMAIN nodes :
          nodes[k].node = "Error" /\ \A j \in 1..(k - 1) : nodes[j].node # "Error"]

\* getattr(node, name, default)
getattr(node, name, default) == IF name \in DOMAIN node THEN node[name] ELSE default

\* tools.ast2code(node), for an expression: its source text
RECURSIVE ast2code(_)
RECURSIVE CommaJoined(_)
CommaJoined(nodes) ==
  IF Len(nodes) = 0 THEN ""
  ELSE IF Len(nodes) = 1 THEN ast2code(nodes[1])
  ELSE ast2code(nodes[1]) \o ", " \o CommaJoined(Tail(nodes))

ast2code(node) ==
  CASE node.node = "Name" -> node.id
    [] node.node = "Attribute" -> ast2code(node.value) \o "." \o node.attr
    [] node.node = "Starred" -> "*" \o ast2code(node.value)
    [] node.node = "keyword" ->
         IF node.arg = "None" THEN "**" \o ast2code(node.value)
         ELSE node.arg \o "=" \o ast2code(node.value)
    [] node.node = "Call" ->
         ast2code(node.func) \o "(" \o CommaJoined(node.args \o node.keywords) \o ")"

\* every name that is appended to a call or hoisted, in lexicographic order
NameOrder == <<"a", "b", "n0_w", "n1_v", "n1_w">>

sorted_reversed(names) ==
  LET s == SelectSeq(NameOrder, LAMBDA n : n \in names) IN [j \in DOMAIN s |-> s[Len(s) + 1 - j]]

\* sorted(names)
sorted(names) == SelectSeq(NameOrder, LAMBDA n : n \in names)

\* ======================================================================
\* The call-site rewriter: FuncTransformer and _replace_func
\* ======================================================================
\* FuncTransformer(func_name, arg_to_append, remove_self); remove_self = None is ""
FuncTransformer(func_name, arg_to_append, remove_self) ==
  [func_name |-> func_name, arg_to_append |-> sorted(arg_to_append), remove_self |-> remove_self]

\* the keywords of ast.parse('f(k=k, ...)') for the k of arg_to_append
new_keywords(t) ==
  [k \in DOMAIN t.arg_to_append |-> keyword(t.arg_to_append[k], Name(t.arg_to_append[k]))]

RECURSIVE visit(_, _)
RECURSIVE generic_visit(_, _)
RECURSIVE visit_Call(_, _)

\* NodeTransformer.visit: visit_Call for a call, generic_visit for any other node
visit(t, node) == IF node.node = "Call" THEN visit_Call(t, node) ELSE generic_visit(t, node)

\* NodeTransformer.generic_visit: every child node is replaced by what visit returns
generic_visit(t, node) ==
  CASE node.node \in {"Module", "FunctionDef"} ->
         LET body == [k \in DOMAIN node.body |-> visit(t, node.body[k])] IN
         IF HasError(body) THEN FirstError(body) ELSE [node EXCEPT !.body = body]
    [] node.node \in {"Expr", "Attribute", "Starred", "keyword"} ->
         LET value == visit(t, node.value) IN
         IF value.node = "Error" THEN value ELSE [node EXCEPT !.value = value]
    [] node.node = "Call" ->
         LET func == visit(t, node.func)
             args == [k \in DOMAIN node.args |-> visit(t, node.args[k])]
             keywords == [k \in DOMAIN node.keywords |-> visit(t, node.keywords[k])]
         IN IF HasError(<<func>> \o args \o keywords) THEN FirstError(<<func>> \o args \o keywords)
            ELSE Call(func, args, keywords)
    [] OTHER -> node

\* FuncTransformer.visit_Call
visit_Call(t, node) ==
  IF getattr(node, "starargs", PyNone) # PyNone
    THEN ErrorNode("ValueError: Variable number of arguments (*args) are not supported")
  ELSE IF getattr(node, "kwargs", PyNone) # PyNone
    THEN ErrorNode("ValueError: Keyword arguments (**kwargs) are not supported")
  ELSE IF ast2code(node.func) = t.func_name
    THEN LET args == [k \in DOMAIN node.args |-> generic_visit(t, node.args[k])]
             kwargs == [k \in DOMAIN node.keywords |-> generic_visit(t, node.keywords[k])]
         IN IF HasError(args) THEN FirstError(args)
            ELSE IF t.remove_self # "" /\ Len(args) = 0
              THEN ErrorNode("IndexError: list index out of range")
            ELSE IF t.remove_self # "" /\ args[1].node # "Name"
              THEN ErrorNode("AttributeError: object has no attribute 'id'")
            ELSE IF HasError(kwargs) THEN FirstError(kwargs)
            ELSE Call(node.func,
                      IF t.remove_self # "" /\ args[1].id = t.remove_self THEN Tail(args) ELSE args,
                      kwargs \o new_keywords(t))
  ELSE node

\* _replace_func(code_or_tree, func_call, arg_to_append, remove_self) on a Module
replaced(code_or_tree, func_call, arg_to_append, remove_self) ==
  visit(FuncTransformer(func_call, arg_to_append, remove_self), code_or_tree)

\* how many rewrites of one tree are followed
MaxPasses == 1

\* _replace_func(tree, func_call, arg_to_append): the Module is rewritten in place
\* and returned. With remove_self = None only the two guards of visit_Call can
\* raise, and they do so before any node is replaced
replace_func(func_call, arg_to_append) ==
  /\ passes < MaxPasses
  /\ passes' = passes + 1
  /\ IF replaced(tree, func_call, arg_to_append, "").node = "Error"
       THEN /\ last' = Outcome("_replace_func",
                               Raise(replaced(tree, func_call, arg_to_append, "").exc, <<>>))
            /\ ret' = PyNone
            /\ UNCHANGED tree
       ELSE /\ last' = Outcome("_replace_func", NoError)
            /\ ret' = replaced(tree, func_call, arg_to_append, "")
            /\ tree' = replaced(tree, func_call, arg_to_append, "")
  /\ called' = <<>>
  /\ UNCHANGED <<delay_vars, target, arguments, checking, pushes, run, phase, delays, objs, transform_vars>>

\* ======================================================================
\* The analyzer: analyze_func, analyze_cls_func, analyze_intg_func,
\* _analyze_cls_func
\* ======================================================================
\* what an attribute of an object holds
Base(n) == [kind |-> "Base", name |-> n]
Variable == [kind |-> "Variable", name |-> ""]
RandomState == [kind |-> "RandomState", name |-> ""]
Callable(f) == [kind |-> "callable", name |-> f]
PlainData == [kind |-> "data", name |-> ""]

\* the hosts that are instances of Container
Containers == {"net", "netbad", "net0"}

\* The object graph under analysis: the host n0 with a Variable, a sub-object n1, a
\* random stream, a constant and its callables; n1 with two Variables and a
\* reference back to n0; three Containers, whose attributes no analysis reads
Objects ==
  [n \in {"n0", "n1"} \cup Containers |->
     IF n = "n0"
       THEN [w |-> Variable, sub |-> Base("n1"), rng |-> RandomState, c |-> PlainData,
             g |-> Callable("g"), h |-> Callable("h"), k |-> Callable("k"),
             rec |-> Callable("rec"), ping |-> Callable("ping"), pong |-> Callable("pong"),
             step |-> Callable("step"), bad |-> Callable("bad")]
     ELSE IF n = "n1" THEN [w |-> Variable, v |-> Variable, parent |-> Base("n0")]
     ELSE EmptyMap]

\* host.child_steps of the Containers, in the order of the dict
child_steps ==
  [n \in Containers |->
     IF n = "net" THEN <<<<<<"n0", "g">>, "g">>, <<<<"n0", "step">>, "step">>>>
     ELSE IF n = "netbad" THEN <<<<<<"n0", "g">>, "g">>, <<<<"n0", "bad">>, "bad">>>>
     ELSE <<>>]

\* the attribute chain parts[1].parts[2]...
RECURSIVE Chain(_)
Chain(parts) ==
  IF Len(parts) = 1 THEN Name(parts[1])
  ELSE Attribute(Chain(SubSeq(parts, 1, Len(parts) - 1)), parts[Len(parts)])

\* a function object: its __name__, the object it is bound to ("" for none), whether
\* it is a numba Dispatcher, whether its name starts with DE_INT (an integrator),
\* its source, and for an integrator brainpy_data['method'] and ['raw_func']
Function(name, self, dispatcher, code) ==
  [name |-> name, self |-> self, dispatcher |-> dispatcher, intg |-> FALSE, code |-> code,
   method |-> "", raw_func |-> <<>>]
Integrator(name, self, how, raw_func, code) ==
  [name |-> name, self |-> self, dispatcher |-> FALSE, intg |-> TRUE, code |-> code,
   method |-> how, raw_func |-> raw_func]

\* def name(args): expr
Def(name, args, expr) == Module(<<FunctionDef(name, args, <<Expr(expr)>>)>>)

FunctionNames ==
  {"g", "h", "k", "rec", "ping", "pong", "step", "bad",
   "net_update", "net_run", "netbad_update", "net0_update",
   "int_plain", "int_comp", "int_cls", "int_exp"}

\* The callables of the graph:
\*   g, step   methods of n0 that read self.w and self.sub.v
\*   h, k      plain functions, k compiled already
\*   rec       a method of n0 that calls itself; ping and pong call each other
\*   bad       a method of n0 whose first parameter is named `this`
\*   net_*     the update steps of the Containers, and a step `run` of net
\*   int_*     integrators: of a plain raw function, of a compiled one, a method
\*             of n0 over the raw method g, and an exponential one
Functions ==
  [f \in FunctionNames |->
     CASE f = "g" -> Function("g", "n0", FALSE, Def("g", <<"self", "x">>, Chain(<<"self", "w">>)))
       [] f = "step" ->
            Function("step", "n0", FALSE, Def("step", <<"self">>, Chain(<<"self", "sub", "v">>)))
       [] f = "h" -> Function("h", "", FALSE, Def("h", <<"x">>, Name("x")))
       [] f = "k" -> Function("k", "", TRUE, Def("k", <<"x">>, Name("x")))
       [] f = "rec" ->
            Function("rec", "n0", FALSE,
                     Def("rec", <<"self", "x">>, Call(Chain(<<"self", "rec">>), <<Name("x")>>, <<>>)))
       [] f = "ping" ->
            Function("ping", "n0", FALSE,
                     Def("ping", <<"self", "x">>, Call(Chain(<<"self", "pong">>), <<Name("x")>>, <<>>)))
       [] f = "pong" ->
            Function("pong", "n0", FALSE,
                     Def("pong", <<"self", "x">>, Call(Chain(<<"self", "ping">>), <<Name("x")>>, <<>>)))
       [] f = "bad" -> Function("bad", "n0", FALSE, Def("bad", <<"this">>, Chain(<<"this", "w">>)))
       [] f = "net_update" -> Function("update", "net", FALSE, Module(<<>>))
       [] f = "net_run" -> Function("run", "net", FALSE, Module(<<>>))
       [] f = "netbad_update" -> Function("update", "netbad", FALSE, Module(<<>>))
       [] f = "net0_update" -> Function("update", "net0", FALSE, Module(<<>>))
       [] f = "int_plain" ->
            Integrator("int_plain", "", "euler", <<<<"f", "h">>>>,
                       Def("int_plain", <<"x">>, Call(Name("f"), <<Name("x")>>, <<>>)))
       [] f = "int_comp" ->
            Integrator("int_comp", "", "euler", <<<<"f", "k">>>>,
                       Def("int_comp", <<"x">>, Call(Name("f"), <<Name("x")>>, <<>>)))
       [] f = "int_cls" ->
            Integrator("int_cls", "n0", "euler", <<<<"f", "g">>>>,
                       Def("int_cls", <<"self", "x">>,
                           Call(Name("f"), <<Name("self"), Name("x")>>, <<>>)))
       [] f = "int_exp" ->
            Integrator("int_exp", "n0", "exponential_euler", <<>>,
                       Def("int_exp", <<"self", "x">>, Chain(<<"self", "w">>)))]

\* profile.CLASS_KEYWORDS
CLASS_KEYWORDS == {"self", "cls"}

\* a node is a dotted name: NAME(.NAME)*
RECURSIVE IsChain(_)
IsChain(node) ==
  \/ node.node = "Name"
  \/ node.node = "Attribute" /\ IsChain(node.value)

\* key.split('.') of a dotted name
RECURSIVE split_keys(_)
split_keys(node) ==
  IF node.node = "Name" THEN <<node.id>> ELSE Append(split_keys(node.value), node.attr)

\* '.'.join(parts)
RECURSIVE join(_)
join(parts) ==
  IF Len(parts) = 1 THEN parts[1]
  ELSE join(SubSeq(parts, 1, Len(parts) - 1)) \o "." \o parts[Len(parts)]

\* key.replace('.', '_') of the key with these dotted parts
RECURSIVE replace_dots(_)
replace_dots(parts) ==
  IF Len(parts) = 1 THEN parts[1]
  ELSE replace_dots(SubSeq(parts, 1, Len(parts) - 1)) \o "_" \o parts[Len(parts)]

\* re.findall('\bcls_name\.[A-Za-z_][A-Za-z0-9_.]*\b', code) as a set, each match
\* split at the dots: the longest dotted names of the code that start at cls_name
RECURSIVE self_data(_, _)
self_data(node, cls_name) ==
  CASE node.node = "Name" -> {}
    [] node.node = "Attribute" ->
         IF IsChain(node)
           THEN IF split_keys(node)[1] = cls_name THEN {split_keys(node)} ELSE {}
         ELSE self_data(node.value, cls_name)
    [] node.node = "Call" ->
         self_data(node.func, cls_name)
           \cup UNION {self_data(node.args[k], cls_name) : k \in DOMAIN node.args}
           \cup UNION {self_data(node.keywords[k], cls_name) : k \in DOMAIN node.keywords}
    [] node.node \in {"Starred", "keyword", "Expr"} -> self_data(node.value, cls_name)
    [] node.node \in {"FunctionDef", "Module"} ->
         UNION {self_data(node.body[k], cls_name) : k \in DOMAIN node.body}

\* The loop `for i in range(1, len(split_keys))` from i on, obj the name of target:
\* [err, target, i], i the index of the first attribute that is no Base
RECURSIVE resolve(_, _, _)
resolve(obj, keys, i) ==
  IF i >= Len(keys) THEN [err |-> Raise("BrainPyError", <<>>), target |-> obj, i |-> i]
  ELSE IF keys[i + 1] \notin DOMAIN Objects[obj]
    THEN [err |-> Raise("AttributeError", <<>>), target |-> obj, i |-> i]
  ELSE IF Objects[obj][keys[i + 1]].kind = "Base"
    THEN resolve(Objects[obj][keys[i + 1]].name, keys, i + 1)
  ELSE [err |-> NoError, target |-> obj, i |-> i]

\* b merged into a: dict.update
Updated(a, b) == [k \in DOMAIN a \cup DOMAIN b |-> IF k \in DOMAIN b THEN b[k] ELSE a[k]]
Bind(k, v) == [x \in {k} |-> v]

\* how deep analyze_func is followed into nested callables before the interpreter's
\* recursion limit is reached
MaxDepth == 3

\* the outcome of an analysis that raised
Failed(res, err) == [res EXCEPT !.err = err]

\* an order in which a set of keys is iterated
Orders(keys) ==
  {o \in [1..Cardinality(keys) -> keys] : \A j1, j2 \in DOMAIN o : j1 # j2 => o[j1] # o[j2]}

\* what an analysis runs: exec(compile(code, '', 'exec'), code_scope) of the source
\* generated for func, and numba.jit of a function
Event(op, func) == [op |-> op, func |-> func]

\* numba.jit(f)
Jit(f) == "numba.jit(" \o f \o ")"
\* code_scope[func_name] after the exec of the source generated for f
Generated(f) == "generated " \o f

\* tools.word_replace(code, match, exclude_dot=False) on one dotted name of the code
ReplacedChain(parts, match) ==
  IF \E j \in 2..Len(parts) : join(SubSeq(parts, 1, j)) \in DOMAIN match
    THEN LET j == CHOOSE j \in 2..Len(parts) : join(SubSeq(parts, 1, j)) \in DOMAIN match
         IN Chain(<<match[join(SubSeq(parts, 1, j))]>> \o SubSeq(parts, j + 1, Len(parts)))
  ELSE Chain(parts)

\* tools.word_replace(code, match, exclude_dot=False): every dotted name that starts
\* with a key of match has the key replaced by the key's value
RECURSIVE word_replace(_, _)
word_replace(node, match) ==
  CASE node.node \in {"Module", "FunctionDef"} ->
         [node EXCEPT !.body = [k \in DOMAIN node.body |-> word_replace(node.body[k], match)]]
    [] node.node = "Attribute" /\ IsChain(node) -> ReplacedChain(split_keys(node), match)
    [] node.node \in {"Expr", "Attribute", "Starred", "keyword"} /\ ~IsChain(node) ->
         [node EXCEPT !.value = word_replace(node.value, match)]
    [] node.node = "Call" ->
         Call(word_replace(node.func, match),
              [k \in DOMAIN node.args |-> word_replace(node.args[k], match)],
              [k \in DOMAIN node.keywords |-> word_replace(node.keywords[k], match)])
    [] OTHER -> node

\* what analyze_func returns or raises: [err, empty, func, arguments, arg2call, nodes,
\* code, executed]; empty is the result {}, code the source that was generated
\* (Module(<<>>) for none), executed what the analysis ran, in order, kept when it raises
Result(err, func, hoisted, arg2call, nodes, code, executed) ==
  [err |-> err, empty |-> FALSE, func |-> func, arguments |-> hoisted, arg2call |-> arg2call,
   nodes |-> nodes, code |-> code, executed |-> executed]

\* In the operators below `nested` stands for the calls of analyze_func made while a
\* function is analyzed: nested[f] is what analyze_func(f) returns or raises there.

\* the parameters of the final code: the class argument removed, the hoisted
\* arguments appended in sorted order
final_args(args, hoisted) == Tail(args) \o sorted(hoisted)

\* args.defaults.extend([ast.Constant(None) for _ in sorted(arguments)])
final_defaults(defaults, hoisted) == defaults \o [j \in DOMAIN sorted(hoisted) |-> "None"]

\* The branch `if len(r)` of a callable: sub what analyze_func gave for it, new_tree
\* the tree with the calls of `key` rewritten; res as in analyze_keys
callable_analyzed(res, key, name, sub, new_tree) ==
  IF new_tree.node = "Error"
    THEN Failed([res EXCEPT !.executed = res.executed \o sub.executed], Raise(new_tree.exc, <<>>))
  ELSE [res EXCEPT !.tree = new_tree,
                   !.arguments = res.arguments \cup sub.arguments,
                   !.arg2call = Updated(res.arg2call, sub.arg2call),
                   !.nodes = res.nodes \cup sub.nodes,
                   !.code_scope = Updated(res.code_scope, Bind(name, sub.func)),
                   !.data_to_replace = Updated(res.data_to_replace, Bind(key, name)),
                   !.executed = res.executed \o sub.executed]

\* The loop `for key in self_data` of _analyze_cls_func over the keys still to
\* visit; res = [err, tree, arguments, arg2call, nodes, data_to_replace, code_scope,
\* code, executed]
RECURSIVE analyze_keys(_, _, _, _)
analyze_keys(res, host, keys, nested) ==
  IF Len(keys) = 0 \/ res.err.exc # "None" THEN res
  ELSE
    LET split == keys[1]
        r == resolve(host, split, 1)
        owner == r.target
        attr == split[r.i + 1]
        held == Objects[owner][attr]
        key == join(SubSeq(split, 1, r.i + 1))
        name == owner \o "_" \o attr
        replace == Updated(res.data_to_replace, Bind(key, name))
        sub == nested[held.name]
    IN IF r.err.exc # "None" THEN Failed(res, r.err)
       ELSE IF held.kind = "Variable"
         THEN analyze_keys(
                [res EXCEPT !.arguments = res.arguments \cup {name},
                            !.arg2call = Updated(res.arg2call,
                                                 Bind(name, owner \o "." \o split[Len(split)] \o ".value")),
                            !.nodes = res.nodes \cup {owner},
                            !.data_to_replace = replace],
                host, Tail(keys), nested)
       ELSE IF held.kind = "RandomState"
         THEN analyze_keys(
                [res EXCEPT !.data_to_replace = replace,
                            !.code_scope = Updated(res.code_scope, Bind(name, "np.random"))],
                host, Tail(keys), nested)
       ELSE IF held.kind = "callable"
         THEN IF Len(split) # r.i + 1 THEN Failed(res, Raise("AssertionError", <<>>))
              ELSE IF sub.err.exc # "None"
                THEN Failed([res EXCEPT !.executed = res.executed \o sub.executed], sub.err)
              ELSE IF sub.empty THEN analyze_keys(res, host, Tail(keys), nested)
              ELSE analyze_keys(
                     callable_analyzed(res, key, name, sub,
                                       replaced(res.tree, key, sub.arguments, "")),
                     host, Tail(keys), nested)
       ELSE analyze_keys(
              [res EXCEPT !.data_to_replace = replace,
                          !.code_scope = Updated(res.code_scope, Bind(name, owner \o "." \o attr))],
              host, Tail(keys), nested)

\* The end of _analyze_cls_func, res what the loop over the keys gave: the final
\* signature, and the names of data_to_replace substituted in the source
final_code(code, res) ==
  IF res.err.exc # "None" THEN res
  ELSE [res EXCEPT !.tree.body[1].decorator_list = <<>>,
                   !.tree.body[1].args = final_args(code.body[1].args, res.arguments),
                   !.tree.body[1].defaults = final_defaults(code.body[1].defaults, res.arguments),
                   !.code = word_replace(
                              [res.tree EXCEPT
                                 !.body[1].decorator_list = <<>>,
                                 !.body[1].args = final_args(code.body[1].args, res.arguments),
                                 !.body[1].defaults =
                                   final_defaults(code.body[1].defaults, res.arguments)],
                              res.data_to_replace)]

\* _analyze_cls_func(host, code) with cls_name = None, the keys of self_data
\* iterated in `order`: [err, tree, arguments, arg2call, nodes, data_to_replace,
\* code_scope, code, executed]; tree is the rewritten tree with its final signature,
\* code the source returned
analyze_cls_source(host, code, order, nested) ==
  LET res0 == [err |-> NoError, tree |-> code, arguments |-> {}, arg2call |-> EmptyMap,
               nodes |-> {}, data_to_replace |-> EmptyMap, code_scope |-> EmptyMap,
               code |-> Module(<<>>), executed |-> <<>>]
  IN IF code.body[1].args[1] \notin CLASS_KEYWORDS THEN Failed(res0, Raise("CodeError", <<>>))
     ELSE final_code(code, analyze_keys(res0, host, order, nested))

\* The loop `for key, step in host.child_steps.items()` of analyze_cls_func from the
\* k-th step on; res = [err, arguments, arg2call, nodes, code_scope, code_lines, executed]
RECURSIVE analyze_child_steps(_, _, _, _)
analyze_child_steps(res, steps, k, nested) ==
  IF k > Len(steps) \/ res.err.exc # "None" THEN res
  ELSE
    LET key == replace_dots(steps[k][1])
        r == nested[steps[k][2]]
        call_args == [j \in DOMAIN sorted(r.arguments) |->
                        keyword(sorted(r.arguments)[j], Name(sorted(r.arguments)[j]))]
    IN IF r.err.exc # "None"
         THEN [res EXCEPT !.err = r.err, !.executed = res.executed \o r.executed]
       ELSE IF r.empty THEN analyze_child_steps(res, steps, k + 1, nested)
       ELSE analyze_child_steps(
              [res EXCEPT !.arguments = res.arguments \cup r.arguments,
                          !.arg2call = Updated(res.arg2call, r.arg2call),
                          !.nodes = res.nodes \cup r.nodes,
                          !.code_scope = Updated(res.code_scope, Bind(key, r.func)),
                          !.code_lines = Append(res.code_lines,
                                                Expr(Call(Name(key), <<Name("_t"), Name("_dt")>>,
                                                          call_args))),
                          !.executed = res.executed \o r.executed],
              steps, k + 1, nested)

\* The end of analyze_cls_func: r what the analysis of the source gave, func_name the
\* function the source defines; the source is executed, the function compiled
compiled(host, func_name, r) ==
  IF r.err.exc # "None"
    THEN Result(r.err, func_name, r.arguments, r.arg2call, r.nodes \cup {host}, Module(<<>>),
                r.executed)
  ELSE Result(NoError, Jit(Generated(func_name)), r.arguments, r.arg2call, r.nodes \cup {host},
              r.code,
              r.executed \o <<Event("exec", func_name), Event("numba.jit", Generated(func_name))>>)

\* analyze_cls_func for a step function of a DynamicSystem that is no Container: the
\* source `code` of the function `name` is analyzed with the keys iterated in
\* `order`, then executed and compiled
analyze_step_func(host, name, code, order, nested) ==
  compiled(host, name, analyze_cls_source(host, code, order, nested))

\* The source analyze_cls_func writes for the update step of a Container, res what
\* the loop over its child steps gave: def <host>_update(_t, _dt, <arguments>) with
\* one call per child step; a def without a line fails to compile
container_source(host, res) ==
  IF res.err.exc = "None" /\ Len(res.code_lines) = 0
    THEN [res EXCEPT !.err = Raise("SyntaxError", <<>>)]
  ELSE [arguments |-> res.arguments, arg2call |-> res.arg2call, nodes |-> res.nodes,
        err |-> res.err, executed |-> res.executed,
        code |-> Module(<<FunctionDef(host \o "_update",
                                      <<"_t", "_dt">> \o sorted(res.arguments), res.code_lines)>>)]

\* analyze_cls_func(f, host=host). A callable of the graph reads one attribute chain,
\* so its key set has one order
analyze_cls_func(f, host, nested) ==
  IF host \in Containers
    THEN IF Functions[f].name # "update"
           THEN Result(Raise("UnsupportedError", <<>>), f, {}, EmptyMap, {host}, Module(<<>>), <<>>)
         ELSE compiled(host, host \o "_update",
                       container_source(host,
                                        analyze_child_steps(
                                          [err |-> NoError, arguments |-> {}, arg2call |-> EmptyMap,
                                           nodes |-> {host}, code_scope |-> EmptyMap,
                                           code_lines |-> <<>>, executed |-> <<>>],
                                          child_steps[host], 1, nested)))
  ELSE analyze_step_func(host, Functions[f].name, Functions[f].code,
                         CHOOSE o \in Orders(self_data(Functions[f].code,
                                                       Functions[f].code.body[1].args[1])) : TRUE,
                         nested)

\* One raw function of an integrator that is bound to func_node: r what
\* analyze_cls_func gave for it, new_tree the tree of the integrator with its calls
\* of `key` rewritten; res as in analyze_raw_func
raw_func_analyzed(res, key, func_node, r, new_tree) ==
  IF r.err.exc # "None"
    THEN [res EXCEPT !.err = r.err, !.need_recompile = TRUE,
                     !.executed = res.executed \o r.executed]
  ELSE IF new_tree.node = "Error"
    THEN [res EXCEPT !.err = Raise(new_tree.exc, <<>>), !.need_recompile = TRUE,
                     !.executed = res.executed \o r.executed]
  ELSE [res EXCEPT !.tree = new_tree,
                   !.need_recompile = TRUE,
                   !.code_scope = Updated(res.code_scope, Bind(key, r.func)),
                   !.arguments = res.arguments \cup r.arguments,
                   !.arg2call = Updated(res.arg2call, r.arg2call),
                   !.nodes = res.nodes \cup r.nodes \cup {func_node},
                   !.executed = res.executed \o r.executed]

\* `if len(r['arguments']) or remove_self: tree = _replace_func(...)`
raw_func_replaced(res, key, func_node, remove_self, r) ==
  raw_func_analyzed(res, key, func_node, r,
                    IF r.err.exc = "None" /\ (r.arguments # {} \/ remove_self # "")
                      THEN replaced(res.tree, key, r.arguments, remove_self)
                    ELSE res.tree)

\* The loop `for key, func in raw_func.items()` of analyze_intg_func over the raw
\* functions still to visit, f_node the object the integrator is bound to ("" for
\* none); res = [err, tree, arguments, arg2call, nodes, code_scope, need_recompile,
\* executed]
RECURSIVE analyze_raw_func(_, _, _, _, _)
analyze_raw_func(res, f_node, remove_self, raw, nested) ==
  IF Len(raw) = 0 \/ res.err.exc # "None" THEN res
  ELSE
    LET key == raw[1][1]
        func == raw[1][2]
        func_node == IF f_node # "" THEN f_node ELSE Functions[func].self
    IN analyze_raw_func(
         IF Functions[func].dispatcher THEN res
         ELSE IF func_node # ""
           THEN raw_func_replaced(res, key, func_node, remove_self,
                                  analyze_cls_func(func, func_node, nested))
         ELSE [res EXCEPT !.need_recompile = TRUE,
                          !.code_scope = Updated(res.code_scope, Bind(key, Jit(func))),
                          !.executed = Append(res.executed, Event("numba.jit", func))],
         f_node, remove_self, Tail(raw), nested)

\* The end of analyze_intg_func for the integrator f with the parameters params: res
\* what the loop over its raw functions gave
recompiled(f, params, res) ==
  IF res.err.exc # "None"
    THEN Result(res.err, f, res.arguments, res.arg2call, res.nodes, Module(<<>>), res.executed)
  ELSE IF res.need_recompile
    THEN Result(NoError, Jit(Generated(f)), res.arguments, res.arg2call, res.nodes,
                [res.tree EXCEPT !.body[1].decorator_list = <<>>,
                                 !.body[1].args = params \o sorted(res.arguments),
                                 !.body[1].defaults =
                                   final_defaults(Functions[f].code.body[1].defaults, res.arguments)],
                res.executed \o <<Event("exec", f), Event("numba.jit", Generated(f))>>)
  ELSE Result(NoError, f, res.arguments, res.arg2call, res.nodes, Module(<<>>), res.executed)

\* analyze_intg_func(f)
analyze_intg_func(f, nested) ==
  IF Functions[f].method = "exponential_euler"
    THEN analyze_cls_func(f, Functions[f].self, nested)
  ELSE
    LET code == Functions[f].code
        f_node == Functions[f].self
        remove_self == IF f_node # "" THEN code.body[1].args[1] ELSE ""
        params == IF f_node # "" THEN Tail(code.body[1].args) ELSE code.body[1].args
    IN recompiled(f, params,
                  analyze_raw_func(
                    [err |-> NoError, tree |-> [code EXCEPT !.body[1].args = params],
                     arguments |-> {}, arg2call |-> EmptyMap, nodes |-> {},
                     code_scope |-> EmptyMap, need_recompile |-> FALSE, executed |-> <<>>],
                    f_node, remove_self, Functions[f].raw_func, nested))

\* analyze_func(f); every bound method of the graph is bound to a DynamicSystem
analyze_once(f, nested) ==
  IF Functions[f].intg THEN analyze_intg_func(f, nested)
  ELSE IF Functions[f].self # "" THEN analyze_cls_func(f, Functions[f].self, nested)
  ELSE IF ~Functions[f].dispatcher
    THEN Result(NoError, Jit(f), {}, EmptyMap, {}, Module(<<>>), <<Event("numba.jit", f)>>)
  ELSE [Result(NoError, f, {}, EmptyMap, {}, Module(<<>>), <<>>) EXCEPT !.empty = TRUE]

\* what analyze_func returns or raises for each callable when `depth` further nested
\* calls fit under the recursion limit
RECURSIVE analyses(_)
analyses(depth) ==
  [f \in FunctionNames |->
     IF depth = 0
       THEN Result(Raise("RecursionError", <<>>), f, {}, EmptyMap, {}, Module(<<>>), <<>>)
     ELSE analyze_once(f, analyses(depth - 1))]

\* analyze_func(f), called with room for `depth` nested calls
analyze_func(f, depth) == analyses(depth)[f]

\* _analyze_cls_func(host = n0, code = the source of tree): the result is returned,
\* the tree it parses is its own
analyze(order) ==
  /\ last' = Outcome("_analyze_cls_func", analyze_cls_source("n0", tree, order, analyses(MaxDepth - 1)).err)
  /\ ret' = analyze_cls_source("n0", tree, order, analyses(MaxDepth - 1))
  /\ called' = <<>>
  /\ UNCHANGED <<delay_vars, target, arguments, checking, pushes, run, phase, delays, objs, tree, passes, transform_vars>>

\* analyze_func(n0.update), the source of update being that of tree
analyze_update(order) ==
  /\ last' = Outcome("analyze_cls_func", analyze_step_func("n0", "update", tree, order, analyses(MaxDepth - 1)).err)
  /\ ret' = analyze_step_func("n0", "update", tree, order, analyses(MaxDepth - 1))
  /\ called' = <<>>
  /\ UNCHANGED <<delay_vars, target, arguments, checking, pushes, run, phase, delays, objs, tree, passes, transform_vars>>

\* analyze_func(f) for a callable of the graph
analyze_callable(f) ==
  /\ last' = Outcome("analyze_func", analyze_func(f, MaxDepth).err)
  /\ ret' = analyze_func(f, MaxDepth)
  /\ called' = <<>>
  /\ UNCHANGED <<delay_vars, target, arguments, checking, pushes, run, phase, delays, objs, tree, passes, transform_vars>>

\* ---- the functions handed to the rewriter and the analyzer
X == Name("x")
ReadChains ==
  {<<"self", "w">>, <<"self", "w", "value">>, <<"self", "sub", "w">>,
   <<"self", "sub", "w", "value">>, <<"self", "sub", "v">>, <<"self", "c">>,
   <<"self", "rng">>, <<"self", "sub">>, <<"self", "zz">>, <<"self", "g", "x">>,
   <<"self", "sub", "parent", "w">>}
Reads == {Chain(p) : p \in ReadChains}
Callees == {Name("f"), Chain(<<"self", "g">>)}
SimpleArgs == {<<>>, <<X>>, <<Starred(Name("args"))>>, <<Chain(<<"self", "w">>)>>}
SimpleKeywords == {<<>>, <<keyword("k", X)>>, <<keyword("None", Name("kw"))>>}
\* f(...) and self.g(...)
Calls1 == {Call(c, a, k) : c \in Callees, a \in SimpleArgs, k \in SimpleKeywords}
InnerCalls ==
  {Call(c, <<X>>, <<>>) : c \in Callees} \cup {Call(Name("f"), <<Starred(Name("args"))>>, <<>>)}
OuterCallees == Callees \cup {Name("p")}
\* a call inside the arguments, the keywords or the callee of another call
Calls2 ==
  {Call(c, <<e>>, <<>>) : c \in OuterCallees, e \in InnerCalls}
    \cup {Call(e, <<X>>, <<>>) : e \in InnerCalls}
    \cup {Call(c, <<>>, <<keyword("k", e)>>) : c \in OuterCallees, e \in InnerCalls}
    \cup {Call(c, <<Attribute(e, "y")>>, <<>>) : c \in OuterCallees, e \in InnerCalls}
Calls3 ==
  {Call(Name("f"), <<Call(c, <<e>>, <<>>)>>, <<>>) : c \in {Name("f"), Name("p")}, e \in InnerCalls}
    \cup {Call(Chain(<<"self", c>>), <<X>>, <<>>) : c \in {"h", "k", "rec", "ping"}}
Exprs == Reads \cup Calls1 \cup Calls2 \cup Calls3
TwoReads ==
  {Chain(<<"self", "w">>), Chain(<<"self", "w", "value">>),
   Chain(<<"self", "sub", "w", "value">>), Call(Chain(<<"self", "g">>), <<X>>, <<>>),
   Chain(<<"self", "sub">>)}
Bodies ==
  {<<Expr(e)>> : e \in Exprs} \cup {<<Expr(e1), Expr(e2)>> : e1 \in TwoReads, e2 \in TwoReads}
\* @numba.jit
\* def update(self, _t, _dt=0.1): expr1; expr2
DecoratedTrees ==
  {Module(<<[FunctionDef("update", <<"self", "_t", "_dt">>, <<Expr(e1), Expr(e2)>>)
               EXCEPT !.decorator_list = <<"numba.jit">>, !.defaults = <<"0.1">>]>>) :
     e1 \in {Chain(<<"self", "sub", "v">>), Call(Chain(<<"self", "g">>), <<X>>, <<>>)},
     e2 \in {Chain(<<"self", "w">>), Chain(<<"self", "sub", "w">>)}}
\* def update(self): body
Trees == {Module(<<FunctionDef("update", <<"self">>, b)>>) : b \in Bodies} \cup DecoratedTrees

FuncCalls == {"f", "self.g"}
ArgsToAppend == {{}, {"a"}, {"a", "b"}}


\* Delay(target, length, before_t0, entries={}, method=...) and a fresh share
Init ==
  /\ method \in {"rotate", "concat"}
  /\ length \in 0..MaxLen
  /\ before_t0 \in {PyNone, PyInt(-1)}
  /\ target = 0
  /\ data = IF length > 0 THEN init_data(length) ELSE NoData
  /\ access_to_step = EmptyMap
  /\ arguments = EmptyMap
  /\ checking \in BOOLEAN
  /\ last = Outcome("__init__", NoError)
  /\ pushes = 0
  /\ run = 0
  /\ phase = "broken"
  /\ delays = <<>>
  /\ objs = InitObjs
  /\ called = <<>>
  /\ ret = PyNone
  /\ tree = Module(<<>>)
  /\ passes = 0
  /\ dyn_vars = InitVars
  /\ context = <<>>

\* what a call of retrieve is given
RetrieveSteps == {PyInt(n) : n \in 0..MaxLen} \cup HeterArrays

\* The buffer at work: one entry name, registered with a lag of none, 0 or a step array
Next ==
  \/ \E s \in {PyNone, PyInt(0), GoodArray} : register_entry("a", PyNone, s)
  \/ at("a")
  \/ \E s \in RetrieveSteps : retrieve(s)
  \/ \E v \in {PyNone, PyInt(target)} : update(v)
  \/ \E b \in BatchSizes : reset_state(b)
  \/ NextStep <= MaxStep /\ advance(NextStep)

Spec == Init /\ [][Next]_vars

\* Registration at work: every kind of argument of register_entry, between updates
NextRegister ==
  \/ \E e \in EntryNames, a \in RegisterArgs : register_entry(e, a[1], a[2])
  \/ update(PyNone)
  \/ reset_state(PyNone)
  \/ NextStep <= MaxRegisterStep /\ advance(NextStep)

\* registration reads neither the checking flag nor the step counter
InitRegister == Init /\ checking /\ length <= MaxLag

SpecRegister == InitRegister /\ [][NextRegister]_vars

\* The life of a Delay: construction, then registration between updates and resets
NextLife ==
  \/ \E len \in 0..MaxLag, b0 \in {PyNone, PyInt(-1)}, e \in {PyNone, PyDict(EmptyMap)},
        how \in {"rotate", "concat"} : Delay_init(len, b0, e, how)
  \/ \E e \in EntryNames, a \in RegisterArgs : register_entry(e, a[1], a[2])
  \/ update(PyNone)
  \/ \E b \in BatchSizes : reset_state(b)
  \/ NextStep <= MaxRegisterStep /\ advance(NextStep)

SpecLife == InitRegister /\ [][NextLife]_vars

\* The shared context at work, around one Delay that is never touched
NextShare ==
  \/ \E c \in SaveCalls : share_save(c[1], c[2])
  \/ \E k \in LoadKeys, v \in LoadDefaults : share_load(k, v)
  \/ share_update
  \/ share_clear

InitShare == Init /\ method = "rotate" /\ length = 0 /\ before_t0 = PyNone /\ checking

SpecShare == InitShare /\ [][NextShare]_vars

\* The analyzer and the rewriter at work on one function
NextJit ==
  \/ \E fc \in FuncCalls, a \in ArgsToAppend : replace_func(fc, a)
  \/ \E o \in Orders(self_data(tree, "self")) : analyze(o)
  \/ \E o \in Orders(self_data(tree, "self")) : analyze_update(o)
  \/ \E f \in FunctionNames : analyze_callable(f)

InitJit ==
  /\ method = "rotate"
  /\ length = 0
  /\ before_t0 = PyNone
  /\ target = 0
  /\ data = NoData
  /\ access_to_step = EmptyMap
  /\ arguments = EmptyMap
  /\ checking = TRUE
  /\ last = Outcome("__init__", NoError)
  /\ pushes = 0
  /\ run = 0
  /\ phase = "broken"
  /\ delays = <<>>
  /\ objs = InitObjs
  /\ called = <<>>
  /\ ret = PyNone
  /\ tree \in Trees
  /\ passes = 0
  /\ dyn_vars = InitVars
  /\ context = <<>>

SpecJit == InitJit /\ [][NextJit]_vars

\* The transformations at work: calls of one ObjectJIT and one FunctionJIT
NextTransform ==
  \/ \E r \in Runs : ObjectJIT_call(r)
  \/ \E e \in {"None", "ValueError"}, out \in Outs : FunctionJIT_call(e, out)

SpecTransform == InitShare /\ [][NextTransform]_vars

\* ======================================================================
\* Claims about the buffer at work (checked under Spec)
\* ======================================================================

\* The value pushed L update() calls before the latest one, when the latest
\* L + 1 calls came one per step and no step was taken since: the target held
\* TargetAt(i) at each of them.
PushedBefore(L) == target - L

\* C1: rotate method, any length: after k updates at successive step indices, a read of
\* lag L (L <= length, L < k) made at the step of the last update returns v_{k-1-L}.
C1_RotateReadsLag ==
  (method = "rotate" /\ data # NoData /\ phase = "updated") =>
    \A L \in 0..length :
      L < run => retrieve_outcomes(PyInt(L)) = {[err |-> NoError, ret |-> <<PushedBefore(L)>>]}

\* The scenario C1 names: length 3, fed 1,2,3,4,5 at successive steps, lag 2 read after
\* the 5th update returns 3.
C1_Scenario ==
  (method = "rotate" /\ length = 3 /\ phase = "updated" /\ run = 5
     /\ target = 5) =>
    retrieve_outcomes(PyInt(2)) = {[err |-> NoError, ret |-> <<3>>]}

\* C2: concat method, length >= 2: after k >= length + 1 updates, rows 0..length hold the
\* last length + 1 pushed values, most recent first.
C2_ConcatHoldsLastPushes ==
  (method = "concat" /\ length >= 2 /\ phase = "updated" /\ run >= length + 1) =>
    \A j \in 0..length : data[j + 1] = PushedBefore(j)

\* C3: concat method, length = 1: reading lag 1 after an update returns the value pushed
\* just before it: the before_t0 seed after the first update, the previous push afterwards.
C3_ConcatLagOne ==
  (method = "concat" /\ length = 1 /\ phase = "updated" /\ pushes >= 1) =>
    /\ pushes = 1 =>
         retrieve_outcomes(PyInt(1)) = {[err |-> NoError, ret |-> <<SeedRow>>]}
    /\ (pushes >= 2 /\ run >= 2) =>
         retrieve_outcomes(PyInt(1)) = {[err |-> NoError, ret |-> <<PushedBefore(1)>>]}

\* C4: for every length >= 0 and both methods, at(entry) on an entry registered with lag 0
\* returns the value passed to the most recent update() call.
C4_ZeroLagReadsLatest ==
  (/\ Registered("a")
   /\ access_to_step["a"].type = "int"
   /\ access_to_step["a"].value = 0
   /\ pushes >= 1
   /\ phase = "updated") =>
    at_outcomes("a") = {[err |-> NoError, ret |-> <<PushedBefore(0)>>]}

\* C10 (as claimed): with checking enabled, retrieve(delay_step) with an element of
\* delay_step greater than length fails with an error reporting the maximum length and the
\* requested lag and returns no data; with delay_step <= length it does not fail.
C10_RetrieveChecksLag ==
  checking =>
    \A s \in RetrieveSteps :
      IF \E j \in DOMAIN Steps(s) : Steps(s)[j] > length
        THEN retrieve_outcomes(s) =
               {[err |-> [exc |-> "ValueError: The request delay length should be less than the maximum delay",
                          args |-> <<length>> \o Steps(s)],
                 ret |-> <<>>]}
        ELSE \A o \in retrieve_outcomes(s) : o.err.exc = "None"

\* C10 (amended): with checking enabled, a lag greater than length fails with that error
\* and returns no data; with delay_step <= length the length check passes: retrieve never
\* raises the delay-length error, and it returns one row per lag whenever the buffer is
\* allocated, the lags are of an integer dtype and, for the rotate method, the step
\* counter i is saved in the shared context.
C10_RetrieveChecksLagWhenReadable ==
  checking =>
    \A s \in RetrieveSteps :
      IF \E j \in DOMAIN Steps(s) : Steps(s)[j] > length
        THEN retrieve_outcomes(s) =
               {[err |-> [exc |-> "ValueError: The request delay length should be less than the maximum delay",
                          args |-> <<length>> \o Steps(s)],
                 ret |-> <<>>]}
        ELSE \A o \in retrieve_outcomes(s) :
               /\ o.err.exc # "ValueError: The request delay length should be less than the maximum delay"
               /\ (/\ data # NoData
                   /\ (s.type = "Array" => s.dtype \in {"int32", "int64"})
                   /\ (method = "rotate" => "i" \in DOMAIN arguments)) =>
                    (o.err.exc = "None" /\ Len(o.ret) = Len(Steps(s)))

\* retrieve has just refused a lag, and a lag equal to the length is readable
C10_Witness ==
  /\ checking
  /\ last.op = "retrieve"
  /\ last.exc = "ValueError: The request delay length should be less than the maximum delay"
  /\ length >= 1
  /\ \E o \in retrieve_outcomes(PyInt(length)) : o.err.exc = "None"

\* ======================================================================
\* Claims about registration (checked under SpecRegister)
\* ======================================================================

\* C5: register_entry with a lag larger than the current length, on a Delay that has
\* recorded updates, grows the capacity and every value an already-registered entry
\* could read before the call is still read by that entry after it.
C5_GrowthKeepsHistory ==
  [][\A e \in EntryNames, a \in RegisterArgs :
       (/\ register_entry(e, a[1], a[2])
        /\ length' > length
        /\ data # NoData
        /\ pushes >= 1) =>
         \A n \in DOMAIN access_to_step :
           (\E o \in at_outcomes(n) : o.err.exc = "None") => at_outcomes(n)' = at_outcomes(n)]_vars

\* C6: across register_entry, update and reset_state calls, length never decreases.
C6_LengthNeverDecreases == [][length' >= length]_vars

\* an entry was registered with a lag below the current length
C6_Witness ==
  /\ last.op = "register_entry"
  /\ last.exc = "None"
  /\ pushes = 0
  /\ \E n \in DOMAIN access_to_step :
       access_to_step[n].type = "int" /\ access_to_step[n].value < length

\* C7: register_entry with both delay_time and delay_step non-null fails, and entries,
\* length and buffer are unchanged.
C7_BothGivenFails ==
  [][\A e \in EntryNames, a \in RegisterArgs :
       (/\ a[1].type # "NoneType"
        /\ a[2].type # "NoneType"
        /\ register_entry(e, a[1], a[2])) =>
         (last'.exc # "None" /\ UNCHANGED <<access_to_step, length, data>>)]_vars

\* the call with both arguments was made on a Delay with a buffer, and refused
C7_Witness ==
  /\ last.op = "register_entry"
  /\ last.exc = "ValueError: Provide either delay_time or delay_step"
  /\ data # NoData

\* C8: register_entry with a per-element step array whose leading dimension differs from
\* the target's, or whose dtype is no integer type, fails before the buffer is
\* reallocated: length, buffer and entries are unchanged.
C8_BadHeterFails ==
  [][\A e \in EntryNames, s \in HeterArrays :
       (/\ (Len(s.value) # TargetDim \/ s.dtype \notin {"int8", "int16", "int32", "int64"})
        /\ register_entry(e, PyNone, s)) =>
         (last'.exc # "None" /\ UNCHANGED <<access_to_step, length, data>>)]_vars

\* a mismatched step array, whose largest lag exceeds the length, was refused
C8_Witness ==
  /\ last.op = "register_entry"
  /\ last.exc = "ValueError: Shape is mismatched"
  /\ length < SeqMax(BadShapeArray.value)

\* C9: register_entry with a name already registered fails, and the lag stored for that
\* name, the length and the buffer are unchanged.
C9_DuplicateFails ==
  [][\A e \in EntryNames, a \in RegisterArgs :
       (e \in DOMAIN access_to_step /\ register_entry(e, a[1], a[2])) =>
         (/\ last'.exc # "None"
          /\ e \in DOMAIN access_to_step'
          /\ access_to_step'[e] = access_to_step[e]
          /\ UNCHANGED <<length, data>>)]_vars

\* a second registration of a name was refused
C9_Witness ==
  /\ last.op = "register_entry"
  /\ last.exc = "KeyError: Entry has been registered"
  /\ DOMAIN access_to_step # {}

\* ======================================================================
\* Claims about reset_state (checked under Spec)
\* ======================================================================

\* C11: a reset_state that returns, on a Delay with length >= 1 and whatever was
\* pushed before, leaves a buffer of exactly length + 1 rows, row 0 the target's
\* current value, rows 1..length before_t0 (zero when before_t0 is None); length
\* and the registered entries are unchanged.
C11_ResetRebuildsBuffer ==
  [][\A b \in BatchSizes :
       (length >= 1 /\ reset_state(b) /\ last'.exc = "None") =>
         /\ Len(data') = length + 1
         /\ data'[1] = target'
         /\ \A j \in 2..(length + 1) :
              data'[j] = (IF before_t0.type = "NoneType" THEN 0 ELSE before_t0.value)
         /\ length' = length
         /\ access_to_step' = access_to_step]_vars

\* a reset has rebuilt a buffer of a Delay with an entry, after steps were taken
C11_Witness ==
  /\ last = Outcome("reset_state", NoError)
  /\ length >= 1
  /\ target > 1
  /\ access_to_step # EmptyMap
  /\ data = <<target>> \o [j \in 1..length |-> IF before_t0.type = "NoneType" THEN 0 ELSE before_t0.value]

C13_LoadOrder ==
  [][\A k \in LoadKeys, v \in LoadDefaults :
       share_load(k, v) =>
         /\ UNCHANGED <<arguments, delays>>
         /\ IF k = "dt"
              THEN /\ last'.exc = "None"
                   /\ ret' = PyInt(IF "dt" \in DOMAIN arguments THEN arguments["dt"] ELSE get_dt)
            ELSE IF k \in DOMAIN arguments
              THEN last'.exc = "None" /\ ret' = PyInt(arguments[k])
            ELSE IF \E j \in DOMAIN delays : delays[j].name = k
              THEN /\ last'.exc = "None"
                   /\ \E j \in DOMAIN delays : delays[j].name = k /\ ret' = PyDelay(delays[j].delay)
            ELSE IF v.type # "NoneType"
              THEN last'.exc = "None" /\ ret' = v
            ELSE last'.exc = "KeyError" /\ ret' = PyNone]_vars

\* a load returned a Delay while arguments were saved and a name is bound in both maps
C13_Witness ==
  /\ last = Outcome("load", NoError)
  /\ ret.type = "Delay"
  /\ \E n \in DOMAIN arguments : n \in delay_names

\* C14: save(n1, v1, ..., nk, vk) with k >= 1 pairs stores every pair: afterwards
\* load(nj) returns vj for each j (stated for pairwise distinct names and values
\* that are no Delay, so that no pair can hide or refuse another).
C14_SaveStoresEveryPair ==
  [][\A c \in SaveCalls :
       LET args == c[1]
           k == Len(args) \div 2
       IN ( /\ c[2] = <<>>
            /\ Len(args) >= 2
            /\ Len(args) % 2 = 0
            /\ \A j \in 1..k : args[2 * j].type = "int"
            /\ \A j1, j2 \in 1..k : j1 # j2 => args[2 * j1 - 1] # args[2 * j2 - 1]
            /\ share_save(args, c[2]) )
          => /\ last'.exc = "None"
             /\ \A j \in 1..k :
                  load_outcome(args[2 * j - 1], PyNone)' = [err |-> NoError, ret |-> args[2 * j]]]_vars

\* the name/value pairs of a call of save, positional ones first
PairsOf(c) == [j \in 1..(Len(c[1]) \div 2) |-> <<c[1][2 * j - 1], c[1][2 * j]>>] \o c[2]

\* C15: save of a Delay under a name already in delays fails and the registered
\* Delay stays bound to the name; a Delay under a fresh name is added to delays
\* only; a value that is no Delay is written to arguments only, over any earlier
\* value (stated for calls whose names are pairwise distinct).
C15_SaveRoutes ==
  [][\A c \in SaveCalls :
       ( /\ Len(c[1]) % 2 = 0
         /\ \A j1, j2 \in DOMAIN PairsOf(c) : j1 # j2 => PairsOf(c)[j1][1] # PairsOf(c)[j2][1]
         /\ share_save(c[1], c[2]) )
       => IF \E j \in DOMAIN PairsOf(c) :
               PairsOf(c)[j][2].type = "Delay" /\ PairsOf(c)[j][1] \in delay_names
            THEN /\ last'.exc # "None"
                 /\ \A e \in DOMAIN delays : \E f \in DOMAIN delays' : delays'[f] = delays[e]
          ELSE \A j \in DOMAIN PairsOf(c) :
                 LET n == PairsOf(c)[j][1]
                     v == PairsOf(c)[j][2]
                 IN IF v.type = "Delay"
                      THEN /\ \E f \in DOMAIN delays' : delays'[f] = [name |-> n, delay |-> v.id]
                           /\ (n \in DOMAIN arguments') = (n \in DOMAIN arguments)
                           /\ n \in DOMAIN arguments => arguments'[n] = arguments[n]
                    ELSE /\ n \in DOMAIN arguments'
                         /\ arguments'[n] = v.value
                         /\ \A f \in DOMAIN delays' : delays'[f].name = n => f \in DOMAIN delays /\ delays[f] = delays'[f]
                         /\ (n \in delay_names') = (n \in delay_names)]_vars

\* C16 as stated: one share.update() calls update() on every registered Delay once,
\* in registration order, and leaves arguments and the set of delays unchanged.
C16_UpdateCallsEveryDelay ==
  [][share_update =>
       /\ called' = [k \in DOMAIN delays |-> delays[k].delay]
       /\ UNCHANGED <<arguments, delays>>]_vars

\* C16, amended: the calls are made in registration order, one per registration,
\* up to and including the first update() that fails; none fails when the step
\* counter i is saved, and a share.update() that returns has called them all.
\* arguments and the set of delays are unchanged either way.
C16_UpdateCallsInOrderUntilFailure ==
  [][share_update =>
       /\ UNCHANGED <<arguments, delays>>
       /\ Len(called') <= Len(delays)
       /\ \A k \in DOMAIN called' : called'[k] = delays[k].delay
       /\ last'.exc = "None" => Len(called') = Len(delays)
       /\ "i" \in DOMAIN arguments => last'.exc = "None"]_vars

\* share.update() returned after updating two different Delays, one of them visibly
C16_Witness ==
  /\ last = Outcome("share.update", NoError)
  /\ Len(called) = 2
  /\ called[1] # called[2]
  /\ objs # InitObjs

\* C17: after clear() arguments and delays are empty: load of a key other than 'dt'
\* without a default fails, load('dt') returns the global default time step; and dt
\* is resolvable in every reachable state.
C17_ClearEmptiesContext ==
  /\ load_outcome("dt", PyNone).err.exc = "None"
  /\ last.op = "clear" =>
       /\ arguments = EmptyMap
       /\ delays = <<>>
       /\ \A k \in LoadKeys \ {"dt"} : load_outcome(k, PyNone).err.exc = "KeyError"
       /\ load_outcome("dt", PyNone) = [err |-> NoError, ret |-> PyInt(get_dt)]

\* clear() has run on a context whose Delays had been registered and updated
C17_Witness ==
  /\ last.op = "clear"
  /\ objs # InitObjs

\* C29: in every state an operation of the context leads to (the context starts
\* empty) no name is bound in both arguments and delays, and
\* after a save(name=d) of a Delay d that returned, load(name) returns d, whatever
\* was saved under the name before.
C29_OneMapPerName ==
  [][/\ (DOMAIN arguments \cap delay_names)' = {}
     /\ \A p \in DelayPairs :
          (share_save(<<>>, <<p>>) /\ last'.exc = "None") =>
            load_outcome(p[1], PyNone)' = [err |-> NoError, ret |-> p[2]]]_vars

\* ======================================================================
\* Claims about the rewriter and the analyzer (checked under SpecJit)
\* ======================================================================

\* the call passes *args or **kwargs
Variadic(call) ==
  \/ \E k \in DOMAIN call.args : call.args[k].node = "Starred"
  \/ \E k \in DOMAIN call.keywords : call.keywords[k].arg = "None"

\* C18: _replace_func fails with an error and returns no tree whenever a call it
\* visits passes *args or **kwargs (stated for the calls that are statements of the
\* function body, which the traversal always visits).
C18_VariadicCallRefused ==
  [][\A fc \in FuncCalls, a \in ArgsToAppend :
       ( /\ \E j \in DOMAIN tree.body[1].body :
              /\ tree.body[1].body[j].value.node = "Call"
              /\ Variadic(tree.body[1].body[j].value)
         /\ replace_func(fc, a) )
       => (last'.exc # "None" /\ ret' = PyNone)]_vars

\* The tree the rewriter is described to make: every call whose callee text is
\* func_call, at any depth, passes name=name for the names; nothing else changes
RECURSIVE rewritten(_, _, _)
rewritten(node, func_call, names) ==
  CASE node.node \in {"Module", "FunctionDef"} ->
         [node EXCEPT !.body = [k \in DOMAIN node.body |-> rewritten(node.body[k], func_call, names)]]
    [] node.node \in {"Expr", "Attribute", "Starred", "keyword"} ->
         [node EXCEPT !.value = rewritten(node.value, func_call, names)]
    [] node.node = "Call" ->
         Call(rewritten(node.func, func_call, names),
              [k \in DOMAIN node.args |-> rewritten(node.args[k], func_call, names)],
              [k \in DOMAIN node.keywords |-> rewritten(node.keywords[k], func_call, names)]
                \o (IF ast2code(node.func) = func_call
                      THEN [k \in DOMAIN names |-> keyword(names[k], Name(names[k]))]
                    ELSE <<>>))
    [] OTHER -> node

\* C19: _replace_func(tree, func_call, arg_to_append) rewrites every call whose
\* callee text equals func_call, wherever it occurs, to pass name=name for each
\* name of arg_to_append, and leaves the calls of any other callee as they are.
C19_EveryMatchingCallRewritten ==
  [][\A fc \in FuncCalls, a \in ArgsToAppend :
       replace_func(fc, a) =>
         (last'.exc = "None" /\ tree' = rewritten(tree, fc, sorted(a)))]_vars

\* C20: after an analysis that returns, every attribute chain of the code rooted at
\* the owning object whose first attribute that is no sub-object is a Variable
\* <attr> of <owner>, trailing attributes or not, has the parameter <owner>_<attr>
\* among the hoisted arguments, mapped in arg2call to '<owner>.<attr>.value'.
C20_VariableChainHoisted ==
  last = Outcome("_analyze_cls_func", NoError) =>
    \A keys \in self_data(tree, "self") :
      LET r == resolve("n0", keys, 1) IN
      (r.err.exc = "None" /\ Objects[r.target][keys[r.i + 1]].kind = "Variable") =>
        /\ (r.target \o "_" \o keys[r.i + 1]) \in ret.arguments
        /\ ret.arg2call[r.target \o "_" \o keys[r.i + 1]]
             = r.target \o "." \o keys[r.i + 1] \o ".value"

\* ======================================================================
\* Claims about the analysis of step functions (checked under SpecJit)
\* ======================================================================

\* the calls that run an analysis and leave its outcome in ret
AnalysisOps == {"_analyze_cls_func", "analyze_cls_func", "analyze_func"}

\* C21: an analysis never ends in unbounded recursion: when the analyzed methods
\* call each other or themselves, or the object graph has a cycle, the analysis
\* returns a result.
C21_CyclicAnalysisReturns ==
  last.op \in AnalysisOps => last.exc # "RecursionError"

\* C22: when an analysis fails, no generated source has been executed (and so none
\* compiled) in that analysis run, the sources generated for nested callables and
\* for sibling child steps included.
C22_FailureBeforeAnyExecution ==
  (last.op \in AnalysisOps /\ last.exc # "None") =>
    \A j \in DOMAIN ret.executed : ret.executed[j].op # "exec"

\* C23: when the analysis of a step function of a class, or of an integrator whose
\* raw functions are plain uncompiled functions, hoists no argument, the function
\* returned is the original function object and no source has been executed.
C23_NoHoistingReturnsOriginal ==
  [][/\ \A o \in Orders(self_data(tree, "self")) :
          (analyze_update(o) /\ last'.exc = "None" /\ ret'.arguments = {}) =>
            (ret'.func = "update" /\ \A j \in DOMAIN ret'.executed : ret'.executed[j].op # "exec")
     /\ \A f \in {"int_plain"} :
          (analyze_callable(f) /\ last'.exc = "None" /\ ret'.arguments = {}) =>
            (ret'.func = f /\ \A j \in DOMAIN ret'.executed : ret'.executed[j].op # "exec")]_vars

\* the place of a synthesized name in the lexicographic order
Position(n) == CHOOSE j \in DOMAIN NameOrder : NameOrder[j] = n

\* the signature `def` is that of the parameters own with the defaults defaults0,
\* followed by the names of hoisted in lexicographic order, each with the default None
HoistedSignature(def, own, defaults0, hoisted) ==
  LET n == Cardinality(hoisted) IN
  /\ Len(def.args) = Len(own) + n
  /\ SubSeq(def.args, 1, Len(own)) = own
  /\ {def.args[j] : j \in (Len(own) + 1)..Len(def.args)} = hoisted
  /\ \A j1, j2 \in (Len(own) + 1)..Len(def.args) :
       j1 < j2 => Position(def.args[j1]) < Position(def.args[j2])
  /\ Len(def.defaults) = Len(defaults0) + n
  /\ SubSeq(def.defaults, 1, Len(defaults0)) = defaults0
  /\ \A j \in (Len(defaults0) + 1)..Len(def.defaults) : def.defaults[j] = "None"

\* two analyses returned, with the same hoisted arguments and the same signature
SameSignature(r1, r2) ==
  /\ r1.err.exc = "None"
  /\ r2.err.exc = "None"
  /\ r1.arguments = r2.arguments
  /\ r1.tree.body[1].args = r2.tree.body[1].args
  /\ r1.tree.body[1].defaults = r2.tree.body[1].defaults

\* C24: an analysis that returned has hoisted the same set of arguments and
\* generated the same signature as the analysis of the same function in any other
\* order of its attribute chains: the original parameters without the class
\* argument, then the hoisted names in lexicographic order, each with a default
\* value; likewise the signature generated for an integrator.
C24_DeterministicSignature ==
  /\ last = Outcome("_analyze_cls_func", NoError) =>
       /\ HoistedSignature(ret.tree.body[1], Tail(tree.body[1].args), tree.body[1].defaults,
                           ret.arguments)
       /\ \A o2 \in Orders(self_data(tree, "self")) :
            SameSignature(analyze_cls_source("n0", tree, o2, analyses(MaxDepth - 1)), ret)
  /\ (last = Outcome("analyze_func", NoError) /\ ret.func = Jit(Generated("int_cls"))) =>
       HoistedSignature(ret.code.body[1], Tail(Functions["int_cls"].code.body[1].args),
                        Functions["int_cls"].code.body[1].defaults, ret.arguments)

\* an analysis of a function that reads two chains has hoisted two arguments
C24_Witness ==
  /\ last = Outcome("_analyze_cls_func", NoError)
  /\ Cardinality(self_data(tree, "self")) = 2
  /\ Cardinality(ret.arguments) = 2
  /\ tree.body[1].defaults # <<>>

\* the identifiers a piece of code reads
RECURSIVE names(_)
names(node) ==
  CASE node.node = "Name" -> {node.id}
    [] node.node = "Call" ->
         names(node.func)
           \cup UNION {names(node.args[k]) : k \in DOMAIN node.args}
           \cup UNION {names(node.keywords[k]) : k \in DOMAIN node.keywords}
    [] node.node \in {"Attribute", "Starred", "keyword", "Expr"} -> names(node.value)
    [] node.node \in {"FunctionDef", "Module"} ->
         UNION {names(node.body[k]) : k \in DOMAIN node.body}

\* C28: in the source _analyze_cls_func returns, no attribute chain rooted at the
\* removed class argument is left, and every name that took the place of a chain is
\* a parameter of the function or bound in the code scope returned.
C28_NoReferenceToSelf ==
  last = Outcome("_analyze_cls_func", NoError) =>
    /\ self_data(ret.code, "self") = {}
    /\ \A n \in names(ret.code) \ names(tree) :
         \/ \E j \in DOMAIN ret.code.body[1].args : ret.code.body[1].args[j] = n
         \/ n \in DOMAIN ret.code_scope

\* ======================================================================
\* Claims about construction and the life of a Delay (checked under SpecLife)
\* ======================================================================

\* C25: Delay(target, length) without an entries argument, length an integer >= 0,
\* returns a Delay with no registered entry, without a buffer when length = 0 and
\* with a buffer of length + 1 rows otherwise.
C25_DefaultConstruction ==
  [][\A len \in 0..MaxLag, b0 \in {PyNone, PyInt(-1)}, how \in {"rotate", "concat"} :
       Delay_init(len, b0, PyNone, how) =>
         /\ last'.exc = "None"
         /\ length' = len
         /\ access_to_step' = EmptyMap
         /\ IF len = 0 THEN data' = NoData ELSE Len(data') = len + 1]_vars

\* the largest lag an entry of the Delay was registered with (0 when none asks for one)
MaxRegisteredLag ==
  LET lags == {max_delay_step(access_to_step[e]) :
                 e \in {n \in DOMAIN access_to_step : delay_type(access_to_step[n]) # "none"}}
  IN IF lags = {} THEN 0 ELSE CHOOSE m \in lags : \A l \in lags : l <= m

\* C27: whatever construction, register_entry, update and reset_state have done, the
\* largest lag of every registered entry is at most length, and the buffer is absent
\* exactly when length = 0 and has exactly length + 1 rows otherwise.
C27_LagWithinLength ==
  /\ \A e \in DOMAIN access_to_step :
       delay_type(access_to_step[e]) # "none" => max_delay_step(access_to_step[e]) <= length
  /\ (data = NoData) <=> (length = 0)
  /\ data # NoData => Len(data) = length + 1

\* two entries are registered, one of which made the buffer grow, and update has
\* written into the buffer since
C27_Witness ==
  /\ Cardinality(DOMAIN access_to_step) = 2
  /\ MaxRegisteredLag = length
  /\ length > 1
  /\ last = Outcome("update", NoError)
  /\ pushes > 0

\* ======================================================================
\* Claims about the transformations (checked under SpecTransform)
\* ======================================================================

\* C26 as stated (refuted): if the function wrapped by ObjectJIT raises any exception,
\* every tracked variable holds the value it had before the call, the entry added to
\* the context for the call is gone, and that exception reaches the caller; if it
\* returns, every tracked variable holds the value of the returned changes.
C26_RestoredOnAnyException ==
  [][\A r \in Runs :
       ObjectJIT_call(r) =>
         IF r.exc = "None" THEN dyn_vars' = r.left
         ELSE /\ dyn_vars' = dyn_vars
              /\ context' = context
              /\ last'.exc = r.exc]_vars

\* C26, amended: if the function raises an exception derived from Exception, every
\* tracked variable holds the value it had before the call, the entry added for the
\* call is gone, and an exception reaches the caller: brainpy's JaxTracerError for
\* jax's UnexpectedTracerError, brainpy's ConcretizationTypeError for jax's, the
\* exception itself otherwise. An exception that is no Exception (KeyboardInterrupt)
\* reaches the caller with the variables as the function left them and the entry
\* still in the context. If the function returns, every tracked variable holds the
\* value of the returned changes and the entry is gone.
C26_RestoredOnException ==
  [][\A r \in Runs :
       ObjectJIT_call(r) =>
         CASE r.exc = "None" ->
                dyn_vars' = r.left /\ context' = context /\ last'.exc = "None"
           [] r.exc = "UnexpectedTracerError" ->
                /\ dyn_vars' = dyn_vars
                /\ context' = context
                /\ last'.exc = "brainpy.errors.JaxTracerError"
           [] r.exc = "ConcretizationTypeError" ->
                /\ dyn_vars' = dyn_vars
                /\ context' = context
                /\ last'.exc = "brainpy.errors.ConcretizationTypeError"
           [] r.exc = "ValueError" ->
                dyn_vars' = dyn_vars /\ context' = context /\ last'.exc = "ValueError"
           [] r.exc = "KeyboardInterrupt" ->
                /\ dyn_vars' = r.left
                /\ context' = Append(context, ObjectJITName)
                /\ last'.exc = "KeyboardInterrupt"]_vars

\* a call of the ObjectJIT has raised brainpy's JaxTracerError, after earlier calls
\* changed the variables and while another transformation's entry is in the context
C26_Witness ==
  /\ last = Outcome("ObjectJIT.__call__", Raise("brainpy.errors.JaxTracerError", <<>>))
  /\ dyn_vars # InitVars
  /\ context # <<>>

====
